---- MODULE Spec2Model ----
(***************************************************************************)
(* Multi-source benefit resolution engine of                               *)
(* src/python_service/pulp_fallback_manager.py:                            *)
(*   evaluate_integrity -> _build_retrieval_jobs -> dispatch_and_collect   *)
(*   -> merge_into_smart_breakdown, driven by run_fallback_manager.        *)
(*                                                                         *)
(* Python strings whose characters matter (procedure descriptions,         *)
(* registry matchers, string values of the document) are sequences of      *)
(* one-character strings, so that lower(), strip() and the substring       *)
(* operator `in` are computed character by character.  Dictionary keys,    *)
(* field paths and enum values are only ever compared for equality and are *)
(* plain strings.  Timestamps are left out of audit lines and records.     *)
(***************************************************************************)
EXTENDS Integers, Sequences, FiniteSets, TLC

VARIABLES
    pc,                    \* position of the caller: idle, evaluated, dispatching, merging, done, error
    api_response,          \* the caller's eligibility document (a Python value)
    scheduled_procedures,  \* the caller's list of procedure descriptions
    connFail,              \* methods whose connector fails during this behaviour
    uuid_counter,          \* source of fresh job ids (uuid.uuid4)
    report,                \* IntegrityReport returned by evaluate_integrity
    sorted_jobs,           \* dispatch_and_collect: indexes into report.retrieval_jobs, in execution order
    job_idx,               \* dispatch_and_collect: position of the loop in sorted_jobs
    collected,             \* dispatch_and_collect: its local result map
    secondary_data,        \* run_fallback_manager: recovered map handed to the merge
    breakdown,             \* SmartBreakdown returned by the last merge
    results,               \* outputs of the completed calls, oldest first
    calls,                 \* number of calls started
    call                   \* the last direct call of a helper: function, arguments, value returned

vars == << pc, api_response, scheduled_procedures, connFail, uuid_counter, report,
           sorted_jobs, job_idx, collected, secondary_data, breakdown, results, calls, call >>

-----------------------------------------------------------------------------
(* Bounds of the model *)

\* number of consecutive entries of EditKeys changed in a base document
MaxEdits == 1
\* number of calls of the pipeline made on the same inputs
MaxRuns == 2

-----------------------------------------------------------------------------
(* Python values *)

EmptyMap == [k \in {} |-> 0]

NoneV == [t |-> "none", n |-> 0, s |-> <<>>, kv |-> EmptyMap, items |-> <<>>]
IntV(i) == [t |-> "int", n |-> i, s |-> <<>>, kv |-> EmptyMap, items |-> <<>>]
BoolV(b) == [t |-> "bool", n |-> IF b THEN 1 ELSE 0, s |-> <<>>, kv |-> EmptyMap, items |-> <<>>]
StrV(str) == [t |-> "str", n |-> 0, s |-> str, kv |-> EmptyMap, items |-> <<>>]
DictV(f) == [t |-> "dict", n |-> 0, s |-> <<>>, kv |-> f, items |-> <<>>]
ListV(xs) == [t |-> "list", n |-> 0, s |-> <<>>, kv |-> EmptyMap, items |-> xs]

\* dict.get(key): None when the key is absent
DictGet(d, key) == IF key \in DOMAIN d THEN d[key] ELSE NoneV

\* dict.get(key, default)
DictGetOr(d, key, default) == IF key \in DOMAIN d THEN d[key] ELSE default

\* an update that keeps the entries already there
DictUpdate_keep_first(a, b) == a @@ b

\* dict.update / {**a, **b}: the entries of b win
DictUpdate(a, b) == b @@ a

\* bool(value) as used by Python's `or`
Truthy(v) ==
    CASE v.t = "none" -> FALSE
      [] v.t = "int"  -> v.n # 0
      [] v.t = "bool" -> v.n # 0
      [] v.t = "str"  -> Len(v.s) > 0
      [] v.t = "dict" -> DOMAIN v.kv # {}
      [] v.t = "list" -> Len(v.items) > 0

\* a or b
PyOr(a, b) == IF Truthy(a) THEN a ELSE b

\* int and bool support `-`; anything else raises TypeError
IsNumber(v) == v.t \in {"int", "bool"}

-----------------------------------------------------------------------------
(* Python strings as character sequences *)

UpperToLower ==
    ("A" :> "a") @@ ("B" :> "b") @@ ("C" :> "c") @@ ("D" :> "d") @@ ("E" :> "e") @@
    ("F" :> "f") @@ ("G" :> "g") @@ ("H" :> "h") @@ ("I" :> "i") @@ ("J" :> "j") @@
    ("K" :> "k") @@ ("L" :> "l") @@ ("M" :> "m") @@ ("N" :> "n") @@ ("O" :> "o") @@
    ("P" :> "p") @@ ("Q" :> "q") @@ ("R" :> "r") @@ ("S" :> "s") @@ ("T" :> "t") @@
    ("U" :> "u") @@ ("V" :> "v") @@ ("W" :> "w") @@ ("X" :> "x") @@ ("Y" :> "y") @@
    ("Z" :> "z")

\* m[key] where key is in m's domain, otherwise
MapGet(m, key, otherwise) == IF key \in DOMAIN m THEN m[key] ELSE otherwise

\* str.lower()
Lower(str) == [i \in 1..Len(str) |-> MapGet(UpperToLower, str[i], str[i])]

Whitespace == {" ", "\t", "\n", "\r"}

RECURSIVE LStrip(_)
LStrip(str) ==
    IF Len(str) > 0 /\ Head(str) \in Whitespace THEN LStrip(Tail(str)) ELSE str

RECURSIVE RStrip(_)
RStrip(str) ==
    IF Len(str) > 0 /\ str[Len(str)] \in Whitespace
    THEN RStrip(SubSeq(str, 1, Len(str) - 1))
    ELSE str

\* str.strip()
Strip(str) == RStrip(LStrip(str))

\* a in b  (substring test)
StrIn(a, b) ==
    \E i \in 0..(Len(b) - Len(a)) : SubSeq(b, i + 1, i + Len(a)) = a

-----------------------------------------------------------------------------
(* Section 1 - enumerations *)

Criticality == {"CRITICAL", "IMPORTANT", "NICE_TO_HAVE"}

RetrievalMethod == {"RPA_SCRAPE", "PDF_ANALYSIS", "MANUAL_CALL"}

MergeSource == {"api", "rpa_scrape", "pdf_analysis", "manual_entry", "inferred", "missing"}

-----------------------------------------------------------------------------
(* Section 2 - field criticality registry *)

FIELD_REGISTRY ==
    <<
        [field_path |-> "annual_maximum_remaining", criticality |-> "CRITICAL",
         procedures |-> << <<"*">> >>,
         preferred_retrieval |-> "RPA_SCRAPE", fallback_retrieval |-> "PDF_ANALYSIS",
         description |-> "Annual Maximum Remaining"],
        [field_path |-> "individual_deductible", criticality |-> "CRITICAL",
         procedures |-> << <<"*">> >>,
         preferred_retrieval |-> "RPA_SCRAPE", fallback_retrieval |-> "PDF_ANALYSIS",
         description |-> "Individual Deductible (Total)"],
        [field_path |-> "deductible_met", criticality |-> "CRITICAL",
         procedures |-> << <<"*">> >>,
         preferred_retrieval |-> "RPA_SCRAPE", fallback_retrieval |-> "PDF_ANALYSIS",
         description |-> "Deductible Met Year-to-Date"],
        [field_path |-> "frequency_limits.D2740", criticality |-> "CRITICAL",
         procedures |-> << <<"c","r","o","w","n">>, <<"D","2","7","4","0">>, <<"D","2","7","5","0">>, <<"D","2","7","5","1">>, <<"D","2","7","5","2">> >>,
         preferred_retrieval |-> "RPA_SCRAPE", fallback_retrieval |-> "PDF_ANALYSIS",
         description |-> "Crown Frequency Limit (D2740 - PFM Crown)"],
        [field_path |-> "frequency_limits.D4341", criticality |-> "CRITICAL",
         procedures |-> << <<"p","e","r","i","o">>, <<"S","R","P">>, <<"D","4","3","4","1">>, <<"D","4","3","4","2">> >>,
         preferred_retrieval |-> "RPA_SCRAPE", fallback_retrieval |-> "PDF_ANALYSIS",
         description |-> "Perio SRP Frequency Limit (D4341)"],
        [field_path |-> "missing_tooth_clause", criticality |-> "CRITICAL",
         procedures |-> << <<"i","m","p","l","a","n","t">>, <<"b","r","i","d","g","e">>, <<"p","a","r","t","i","a","l">>, <<"D","6","0","1","0">>, <<"D","6","2","4","0">>, <<"D","5","2","1","1">> >>,
         preferred_retrieval |-> "PDF_ANALYSIS", fallback_retrieval |-> "MANUAL_CALL",
         description |-> "Missing Tooth Clause (prosthetic / implant exclusion)"],
        [field_path |-> "frequency_limits.D1110", criticality |-> "IMPORTANT",
         procedures |-> << <<"p","r","o","p","h","y">>, <<"c","l","e","a","n","i","n","g">>, <<"D","1","1","1","0">>, <<"D","1","1","2","0">> >>,
         preferred_retrieval |-> "RPA_SCRAPE", fallback_retrieval |-> "PDF_ANALYSIS",
         description |-> "Adult Prophy Frequency (D1110)"],
        [field_path |-> "frequency_limits.D0274", criticality |-> "IMPORTANT",
         procedures |-> << <<"b","i","t","e","w","i","n","g">>, <<"B","W","X">>, <<"D","0","2","7","4">>, <<"D","0","2","7","2">> >>,
         preferred_retrieval |-> "RPA_SCRAPE", fallback_retrieval |-> "PDF_ANALYSIS",
         description |-> "Bitewing X-Ray Frequency (D0274 - 4 BWX)"],
        [field_path |-> "waiting_period.major", criticality |-> "IMPORTANT",
         procedures |-> << <<"c","r","o","w","n">>, <<"b","r","i","d","g","e">>, <<"D","2","7","4","0">>, <<"D","2","7","5","0">>, <<"D","6","2","4","0">> >>,
         preferred_retrieval |-> "PDF_ANALYSIS", fallback_retrieval |-> "MANUAL_CALL",
         description |-> "Waiting Period - Major Services"],
        [field_path |-> "composite_posterior_downgrade", criticality |-> "IMPORTANT",
         procedures |-> << <<"c","o","m","p","o","s","i","t","e">>, <<"D","2","3","3","0">>, <<"D","2","3","3","1">>, <<"D","2","3","3","2">>, <<"D","2","3","3","5">> >>,
         preferred_retrieval |-> "RPA_SCRAPE", fallback_retrieval |-> "PDF_ANALYSIS",
         description |-> "Posterior Composite Downgrade to Amalgam Rate"],
        [field_path |-> "frequency_limits.D4910", criticality |-> "IMPORTANT",
         procedures |-> << <<"p","e","r","i","o"," ","m","a","i","n","t","e","n","a","n","c","e">>, <<"D","4","9","1","0">> >>,
         preferred_retrieval |-> "RPA_SCRAPE", fallback_retrieval |-> "PDF_ANALYSIS",
         description |-> "Perio Maintenance Frequency (D4910)"],
        [field_path |-> "coverage_pct.basic", criticality |-> "IMPORTANT",
         procedures |-> << <<"*">> >>,
         preferred_retrieval |-> "RPA_SCRAPE", fallback_retrieval |-> "PDF_ANALYSIS",
         description |-> "Basic / Restorative Coverage Percentage"],
        [field_path |-> "coverage_pct.major", criticality |-> "IMPORTANT",
         procedures |-> << <<"c","r","o","w","n">>, <<"b","r","i","d","g","e">>, <<"D","2","7","4","0">>, <<"D","6","2","4","0">> >>,
         preferred_retrieval |-> "RPA_SCRAPE", fallback_retrieval |-> "PDF_ANALYSIS",
         description |-> "Major Services Coverage Percentage"],
        [field_path |-> "frequency_limits.D1351", criticality |-> "NICE_TO_HAVE",
         procedures |-> << <<"s","e","a","l","a","n","t">>, <<"D","1","3","5","1">> >>,
         preferred_retrieval |-> "RPA_SCRAPE", fallback_retrieval |-> "PDF_ANALYSIS",
         description |-> "Sealant Frequency / Age Limit (D1351)"],
        [field_path |-> "ortho_lifetime_maximum", criticality |-> "NICE_TO_HAVE",
         procedures |-> << <<"o","r","t","h","o">>, <<"D","8","0","8","0">>, <<"D","8","0","9","0">> >>,
         preferred_retrieval |-> "PDF_ANALYSIS", fallback_retrieval |-> "MANUAL_CALL",
         description |-> "Orthodontic Lifetime Maximum"],
        [field_path |-> "fluoride_coverage", criticality |-> "NICE_TO_HAVE",
         procedures |-> << <<"f","l","u","o","r","i","d","e">>, <<"D","1","2","0","6">>, <<"D","1","2","0","8">> >>,
         preferred_retrieval |-> "RPA_SCRAPE", fallback_retrieval |-> "PDF_ANALYSIS",
         description |-> "Fluoride Coverage"]
    >>

\* [reg["field_path"] for reg in registry]
PathsOf(registry) == [i \in 1..Len(registry) |-> registry[i].field_path]

RegistryPaths == PathsOf(FIELD_REGISTRY)

-----------------------------------------------------------------------------
(* Section 3 - data structures *)

MissingField(reg, relevant) ==
    [field_path |-> reg.field_path,
     description |-> reg.description,
     criticality |-> reg.criticality,
     preferred_retrieval |-> reg.preferred_retrieval,
     fallback_retrieval |-> reg.fallback_retrieval,
     relevant_to_today |-> relevant]

RetrievalJob(id, ids, method, fields, crit) ==
    [job_id |-> id,
     patient_id |-> ids.patient_id,
     carrier |-> ids.carrier,
     member_id |-> ids.member_id,
     method |-> method,
     fields_requested |-> fields,
     criticality |-> crit,
     status |-> "PENDING",
     result |-> EmptyMap]

-----------------------------------------------------------------------------
(* Section 4 - utility helpers *)

MissingLiterals == {
    <<>>,
    <<"n","o","t"," ","f","o","u","n","d">>,
    <<"n","/","a">>,
    <<"u","n","k","n","o","w","n">>,
    <<"n","u","l","l">>,
    <<"n","o","n","e">>,
    <<"n","o","t"," ","a","p","p","l","i","c","a","b","l","e">>,
    <<"i","n","f","o","r","m","a","t","i","o","n"," ","n","o","t"," ","a","v","a","i","l","a","b","l","e">>,
    <<"n","o","t"," ","c","o","v","e","r","e","d">>,
    <<"s","e","e"," ","p","l","a","n"," ","d","o","c","u","m","e","n","t","s">>
}

\* _is_missing testing `not value` first: every falsy value is missing
is_missing_falsy(value) ==
    IF ~Truthy(value) THEN TRUE
    ELSE value.t = "str" /\ Lower(Strip(value.s)) \in MissingLiterals

is_missing(value) ==
    IF value.t = "none" THEN TRUE
    ELSE IF value.t = "str" /\ Lower(Strip(value.s)) \in MissingLiterals THEN TRUE
    ELSE IF value.t = "dict" /\ DOMAIN value.kv = {} THEN TRUE
    ELSE IF value.t = "list" /\ Len(value.items) = 0 THEN TRUE
    ELSE FALSE

\* dot_path.split("."), for the dotted paths the program uses
Split(dot_path) ==
    CASE dot_path = "frequency_limits.D2740" -> << "frequency_limits", "D2740" >>
      [] dot_path = "frequency_limits.D4341" -> << "frequency_limits", "D4341" >>
      [] dot_path = "frequency_limits.D1110" -> << "frequency_limits", "D1110" >>
      [] dot_path = "frequency_limits.D0274" -> << "frequency_limits", "D0274" >>
      [] dot_path = "waiting_period.major" -> << "waiting_period", "major" >>
      [] dot_path = "frequency_limits.D4910" -> << "frequency_limits", "D4910" >>
      [] dot_path = "coverage_pct.basic" -> << "coverage_pct", "basic" >>
      [] dot_path = "coverage_pct.major" -> << "coverage_pct", "major" >>
      [] dot_path = "frequency_limits.D1351" -> << "frequency_limits", "D1351" >>
      [] OTHER -> << dot_path >>

RECURSIVE get_nested_from(_, _)
get_nested_from(node, parts) ==
    IF parts = <<>> THEN node
    ELSE IF node.t # "dict" THEN NoneV
    ELSE get_nested_from(DictGet(node.kv, Head(parts)), Tail(parts))

get_nested(data, dot_path) == get_nested_from(data, Split(dot_path))

\* the matcher looked for in the scheduled procedure only
EitherContains_one_way(fp_lower, sched_lower) == StrIn(fp_lower, sched_lower)

\* fp.lower() in sched_lower or sched_lower in fp.lower()
EitherContains(fp_lower, sched_lower) ==
    StrIn(fp_lower, sched_lower) \/ StrIn(sched_lower, fp_lower)

procedure_is_relevant(scheduled, field_procedures) ==
    IF \E k \in 1..Len(field_procedures) : field_procedures[k] = <<"*">> THEN TRUE
    ELSE \E j \in 1..Len(scheduled) : \E k \in 1..Len(field_procedures) :
            EitherContains(Lower(field_procedures[k]), Lower(scheduled[j]))

\* A completeness score present/total is kept as the exact fraction [num, den];
\* the float comparisons score >= 0.95 ... are decided on the fraction.
Score(num, den) == [num |-> num, den |-> den]

\* grade with strict comparisons: a score on a threshold gets the lower grade
grade_strict(score) ==
    IF score.num * 100 > 95 * score.den THEN "A"
    ELSE IF score.num * 100 > 85 * score.den THEN "B"
    ELSE IF score.num * 100 > 70 * score.den THEN "C"
    ELSE IF score.num * 100 > 50 * score.den THEN "D"
    ELSE "F"

grade(score) ==
    IF score.num * 100 >= 95 * score.den THEN "A"
    ELSE IF score.num * 100 >= 85 * score.den THEN "B"
    ELSE IF score.num * 100 >= 70 * score.den THEN "C"
    ELSE IF score.num * 100 >= 50 * score.den THEN "D"
    ELSE "F"

NoBreakdown ==
    [patient_id |-> "", carrier |-> "", member_id |-> "",
     completeness_score |-> [num |-> 0, den |-> 1], completeness_grade |-> "",
     fields |-> EmptyMap, sources |-> EmptyMap, warnings |-> <<>>, audit_trail |-> <<>>]

-----------------------------------------------------------------------------
(* Section 7 - secondary retrieval stubs *)

rpa_simulated_data ==
    ("annual_maximum_remaining" :> IntV(145000)) @@
    ("individual_deductible" :> IntV(5000)) @@
    ("deductible_met" :> IntV(5000)) @@
    ("frequency_limits.D1110" :> DictV(("times_per_period" :> IntV(2)) @@ ("period" :> StrV(<<"c","a","l","e","n","d","a","r","_","y","e","a","r">>)) @@ ("used_this_period" :> IntV(1)) @@ ("next_eligible_date" :> StrV(<<"2","0","2","5","-","0","7","-","1","0">>)))) @@
    ("frequency_limits.D0274" :> DictV(("times_per_period" :> IntV(1)) @@ ("period" :> StrV(<<"c","a","l","e","n","d","a","r","_","y","e","a","r">>)) @@ ("used_this_period" :> IntV(0)) @@ ("next_eligible_date" :> NoneV))) @@
    ("frequency_limits.D2740" :> DictV(("times_per_period" :> IntV(1)) @@ ("period" :> StrV(<<"5","_","y","e","a","r","s">>)) @@ ("last_service_date" :> NoneV) @@ ("next_eligible_date" :> NoneV))) @@
    ("frequency_limits.D4341" :> DictV(("quads_per_year" :> IntV(4)) @@ ("used_this_year" :> IntV(0)) @@ ("last_service_date" :> NoneV))) @@
    ("composite_posterior_downgrade" :> BoolV(FALSE)) @@
    ("coverage_pct.basic" :> IntV(80)) @@
    ("coverage_pct.major" :> IntV(50))

pdf_simulated_data ==
    ("missing_tooth_clause" :> DictV(("applies" :> BoolV(FALSE)) @@ ("notes" :> StrV(<<"N","o"," ","m","i","s","s","i","n","g"," ","t","o","o","t","h"," ","c","l","a","u","s","e"," ","i","d","e","n","t","i","f","i","e","d"," ","i","n"," ","p","l","a","n"," ","d","o","c","u","m","e","n","t","s",".">>)) @@ ("affected_teeth" :> ListV(<<>>)))) @@
    ("waiting_period.major" :> DictV(("months" :> IntV(0)) @@ ("waived_for" :> StrV(<<"a","c","c","i","d","e","n","t">>)) @@ ("effective_date" :> StrV(<<"2","0","2","4","-","0","1","-","0","1">>)))) @@
    ("frequency_limits.D4910" :> DictV(("times_per_period" :> IntV(4)) @@ ("period" :> StrV(<<"c","a","l","e","n","d","a","r","_","y","e","a","r">>)) @@ ("used_this_period" :> IntV(0)))) @@
    ("ortho_lifetime_maximum" :> IntV(150000)) @@
    ("fluoride_coverage" :> BoolV(TRUE))

\* a stub returning all it knows, requested or not
StubResult_unfiltered(job, simulated_data) == simulated_data

\* {k: simulated_data[k] for k in job.fields_requested if k in simulated_data}
StubResult(job, simulated_data) ==
    [k \in {job.fields_requested[i] : i \in 1..Len(job.fields_requested)}
             \cap DOMAIN simulated_data |-> simulated_data[k]]

\* a stub that also strikes the fields it could not retrieve off the job
Completed_trimmed(job, result) ==
    [job |-> [job EXCEPT !.status = "COMPLETE", !.result = result,
                         !.fields_requested =
                             SelectSeq(job.fields_requested, LAMBDA k : k \in DOMAIN result)],
     result |-> result]

\* job.status = "COMPLETE"; job.result = result; return result
\* (each stub yields the job as it leaves it and the map it returns)
Completed(job, result) ==
    [job |-> [job EXCEPT !.status = "COMPLETE", !.result = result], result |-> result]

rpa_scrape_stub(job) == Completed(job, StubResult(job, rpa_simulated_data))

pdf_analysis_stub(job) == Completed(job, StubResult(job, pdf_simulated_data))

manual_call_stub(job) ==
    [job |-> [job EXCEPT !.status = "MANUAL_REQUIRED"], result |-> EmptyMap]

-----------------------------------------------------------------------------
(* Section 8 - retrieval dispatcher *)

priority(criticality) ==
    CASE criticality = "CRITICAL" -> 0
      [] criticality = "IMPORTANT" -> 1
      [] criticality = "NICE_TO_HAVE" -> 2
      [] OTHER -> 9

\* sorted(jobs, key=priority): a stable sort, as indexes into jobs
WithPriority(jobs, r) ==
    SelectSeq([i \in 1..Len(jobs) |-> i], LAMBDA i : priority(jobs[i].criticality) = r)

\* the jobs run in the order they were built, unsorted
SortedJobs_as_built(jobs) == [i \in 1..Len(jobs) |-> i]

SortedJobs(jobs) ==
    WithPriority(jobs, 0) \o WithPriority(jobs, 1) \o WithPriority(jobs, 2)
        \o WithPriority(jobs, 9)

\* the connector dispatch_and_collect calls for a job
Connector(job) ==
    IF job.method = "RPA_SCRAPE" THEN rpa_scrape_stub(job)
    ELSE IF job.method = "PDF_ANALYSIS" THEN pdf_analysis_stub(job)
    ELSE manual_call_stub(job)

-----------------------------------------------------------------------------
(* Inputs the model draws *)

\* identifiers of the demo call (scenario 1)
DemoIds == [patient_id |-> "patient_abc123", carrier |-> "Delta Dental PPO",
            member_id |-> "DD00112233"]

\* api_response of scenario 2
EmptyDoc == DictV(EmptyMap)

\* api_response of scenario 1
PARTIAL_API_RESPONSE ==
    DictV(("plan_status" :> StrV(<<"a","c","t","i","v","e">>)) @@
          ("verification_status" :> StrV(<<"v","e","r","i","f","i","e","d">>)) @@
          ("payer_name" :> StrV(<<"D","e","l","t","a"," ","D","e","n","t","a","l"," ","P","P","O"," ","P","l","u","s"," ","P","r","e","m","i","e","r">>)) @@
          ("benefit_year_start" :> StrV(<<"2","0","2","5","-","0","1","-","0","1">>)) @@
          ("benefit_year_end" :> StrV(<<"2","0","2","5","-","1","2","-","3","1">>)) @@
          ("annual_maximum" :> IntV(200000)) @@
          ("annual_used" :> IntV(55000)) @@
          ("individual_deductible" :> IntV(5000)) @@
          ("deductible_met" :> IntV(5000)) @@
          ("frequency_limits" :> DictV(("D1110" :> DictV(("times_per_period" :> IntV(2)) @@ ("period" :> StrV(<<"c","a","l","e","n","d","a","r","_","y","e","a","r">>)) @@ ("used_this_period" :> IntV(1)) @@ ("next_eligible_date" :> StrV(<<"2","0","2","5","-","0","7","-","1","0">>)))))) @@
          ("coverage_pct" :> DictV(EmptyMap)))

RECURSIVE set_nested_from(_, _, _)
set_nested_from(node, parts, value) ==
    IF Len(parts) = 1 THEN DictV(DictUpdate(node.kv, Head(parts) :> value))
    ELSE LET part == Head(parts)
             child == IF part \in DOMAIN node.kv /\ node.kv[part].t = "dict"
                      THEN node.kv[part] ELSE DictV(EmptyMap)
         IN  DictV(DictUpdate(node.kv, part :> set_nested_from(child, Tail(parts), value)))

\* _set_nested, returning the dictionary it leaves
set_nested(data, dot_path, value) == set_nested_from(data, Split(dot_path), value)

RECURSIVE SetAll(_, _, _)
SetAll(data, flat, keys) ==
    IF keys = {} THEN data
    ELSE LET k == CHOOSE x \in keys : TRUE
         IN  SetAll(set_nested(data, k, flat[k]), flat, keys \ {k})

\* a document in which every registry field is present: what the two stubs
\* would recover, and a value for the sealant limit neither of them knows
CompleteDoc ==
    LET flat == rpa_simulated_data @@ pdf_simulated_data @@
                ("frequency_limits.D1351" :> DictV(("times_per_period" :> IntV(1))))
    IN  SetAll(EmptyDoc, flat, DOMAIN flat)

BaseDocs == { EmptyDoc, PARTIAL_API_RESPONSE, CompleteDoc }

\* the places an edit can write: the inference operands, the registry paths
\* and two parents of nested paths
EditKeys ==
    << "annual_maximum", "annual_used" >> \o RegistryPaths \o << "frequency_limits", "coverage_pct" >>

EditValues == {
    NoneV,
    IntV(0),
    IntV(70000),
    BoolV(FALSE),
    StrV(<<" ","N","/","A"," ">>),
    StrV(<<"P","P","O">>),
    DictV(EmptyMap)
}

\* data with value written at the keys EditKeys[from] .. EditKeys[from + len - 1]
RECURSIVE EditWindow(_, _, _, _)
EditWindow(data, start, len, value) ==
    IF len = 0 \/ start > Len(EditKeys) THEN data
    ELSE EditWindow(set_nested(data, EditKeys[start], value), start + 1, len - 1, value)

\* api_response arguments that are no dictionary
MalformedRoots == { NoneV, ListV(<< IntV(1) >>), StrV(<<"n","/","a">>), IntV(5) }

Documents ==
    { EditWindow(base, start, len, value) :
        base \in BaseDocs, value \in EditValues,
        start \in 1..Len(EditKeys), len \in 0..MaxEdits }
    \cup MalformedRoots

ScheduleSamples == {
    <<>>,
    << <<"C","r","o","w","n"," ","P","r","e","p"," ","#","1","4"," ","D","2","7","4","0">>,
       <<"P","e","r","i","o"," ","S","R","P"," ","D","4","3","4","1">>,
       <<"4"," ","B","i","t","e","w","i","n","g"," ","B","W","X"," ","D","0","2","7","4">> >>,
    << <<"I","m","p","l","a","n","t"," ","C","o","n","s","u","l","t"," ","#","3","0"," ","D","6","0","1","0">> >>,
    << <<"O","r","t","h","o"," ","c","o","n","s","u","l","t">>, <<"s","e","a","l","a","n","t">> >>,
    << <<"P","e","r","i","o"," ","M","a","i","n","t","e","n","a","n","c","e"," ","D","4","9","1","0">> >>,
    << <<>> >>
}

ConnectorFailures == { {}, {"RPA_SCRAPE"}, {"PDF_ANALYSIS"} }

\* procedure_is_relevant tabulated once for the schedules the model draws and
\* the matcher lists of the registry; any other argument is computed directly
TabulateRelevance(schedules, registry) ==
    [sched \in schedules |->
        [procs \in {registry[i].procedures : i \in 1..Len(registry)} |->
            procedure_is_relevant(sched, procs)]]

RelevanceTable == TabulateRelevance(ScheduleSamples, FIELD_REGISTRY)

LookUpRelevance(table, sched, procs) ==
    IF sched \in DOMAIN table /\ procs \in DOMAIN table[sched]
    THEN table[sched][procs]
    ELSE procedure_is_relevant(sched, procs)

Relevant(sched, procs) == LookUpRelevance(RelevanceTable, sched, procs)

-----------------------------------------------------------------------------
(* Section 6 - retrieval job builder *)

\* the criticality of the first field of the batch taken for the whole batch
TopCriticality_first(batch, i, top_crit) ==
    IF i > Len(batch) THEN top_crit ELSE batch[i].criticality

\* the loop computing the highest criticality of a batch, from position i on
RECURSIVE TopCriticality(_, _, _)
TopCriticality(batch, i, top_crit) ==
    IF i > Len(batch) THEN top_crit
    ELSE IF batch[i].criticality = "CRITICAL" THEN "CRITICAL"
    ELSE IF batch[i].criticality = "IMPORTANT" THEN TopCriticality(batch, i + 1, "IMPORTANT")
    ELSE TopCriticality(batch, i + 1, top_crit)

method_order == << "RPA_SCRAPE", "PDF_ANALYSIS", "MANUAL_CALL" >>

\* every field that is not relevant to today's visit skipped, whatever its tier
fields_to_retrieve_relevant_only(missing_fields) ==
    SelectSeq(missing_fields, LAMBDA mf : mf.relevant_to_today)

\* NICE_TO_HAVE fields that are not relevant to today's visit are skipped
fields_to_retrieve(missing_fields) ==
    SelectSeq(missing_fields,
              LAMBDA mf : mf.criticality # "NICE_TO_HAVE" \/ mf.relevant_to_today)

\* grouping that also puts a field under its fallback method
GroupOf_with_fallback(retained, method) ==
    SelectSeq(retained, LAMBDA mf : mf.preferred_retrieval = method
                                    \/ mf.fallback_retrieval = method)

\* groups[method]: the retained fields whose preferred method it is, in order
GroupOf(retained, method) ==
    SelectSeq(retained, LAMBDA mf : mf.preferred_retrieval = method)

\* the job created for a non-empty batch, and its audit line;
\* acc = [jobs, audit, uuid]
AddJob(acc, ids, method, batch, top_crit) ==
    [jobs |-> Append(acc.jobs,
                     RetrievalJob(acc.uuid, ids, method,
                                  [i \in 1..Len(batch) |-> batch[i].field_path], top_crit)),
     audit |-> Append(acc.audit, << "DISPATCH", method, ToString(Len(batch)), top_crit >>),
     uuid |-> acc.uuid + 1]

\* one iteration of the loop over method_order
JobForBatch(acc, ids, method, batch) ==
    IF batch = <<>> THEN acc
    ELSE AddJob(acc, ids, method, batch, TopCriticality(batch, 1, "NICE_TO_HAVE"))

\* the loop over method_order, from position k on
RECURSIVE JobsLoop(_, _, _, _)
JobsLoop(retained, ids, k, acc) ==
    IF k > Len(method_order) THEN acc
    ELSE JobsLoop(retained, ids, k + 1,
                  JobForBatch(acc, ids, method_order[k], GroupOf(retained, method_order[k])))

build_retrieval_jobs(missing_fields, ids, audit, uuid) ==
    JobsLoop(fields_to_retrieve(missing_fields), ids, 1,
             [jobs |-> <<>>, audit |-> audit, uuid |-> uuid])

-----------------------------------------------------------------------------
(* Section 5 - data integrity evaluator *)

\* BlockDecision ignoring relevance: any missing CRITICAL field blocks
BlockDecision_any_critical(critical_missing) == critical_missing # <<>>

\* block = any(mf.relevant_to_today for mf in critical_missing)
BlockDecision(critical_missing) ==
    \E i \in 1..Len(critical_missing) : critical_missing[i].relevant_to_today

\* EvalStep with the IMPORTANT branch taken for every tier but CRITICAL
EvalStep_two_tiers(acc, reg, relevant, missing) ==
    IF ~missing
    THEN [acc EXCEPT !.fields_present = @ + 1,
                     !.audit = Append(@, << "present", reg.field_path, reg.criticality >>)]
    ELSE IF reg.criticality = "CRITICAL"
    THEN [acc EXCEPT !.critical_missing = Append(@, MissingField(reg, relevant)),
                     !.audit = Append(@, << "MISSING", reg.field_path,
                                            IF relevant THEN "CRITICAL"
                                            ELSE "CRITICAL (not today's procedure)" >>)]
    ELSE [acc EXCEPT !.important_missing = Append(@, MissingField(reg, relevant)),
                     !.audit = Append(@, << "MISSING", reg.field_path,
                                            IF relevant THEN "IMPORTANT"
                                            ELSE "IMPORTANT (not today)" >>)]

\* the body of the loop over the registry for one entry;
\* acc = [fields_present, critical_missing, important_missing, nice_missing, audit]
EvalStep(acc, reg, relevant, missing) ==
    IF ~missing
    THEN [acc EXCEPT !.fields_present = @ + 1,
                     !.audit = Append(@, << "present", reg.field_path, reg.criticality >>)]
    ELSE IF reg.criticality = "CRITICAL"
    THEN [acc EXCEPT !.critical_missing = Append(@, MissingField(reg, relevant)),
                     !.audit = Append(@, << "MISSING", reg.field_path,
                                            IF relevant THEN "CRITICAL"
                                            ELSE "CRITICAL (not today's procedure)" >>)]
    ELSE IF reg.criticality = "IMPORTANT"
    THEN [acc EXCEPT !.important_missing = Append(@, MissingField(reg, relevant)),
                     !.audit = Append(@, << "MISSING", reg.field_path,
                                            IF relevant THEN "IMPORTANT"
                                            ELSE "IMPORTANT (not today)" >>)]
    ELSE [acc EXCEPT !.nice_missing = Append(@, MissingField(reg, relevant)),
                     !.audit = Append(@, << "MISSING", reg.field_path, "NICE_TO_HAVE" >>)]

\* the loop over the registry, from entry i on
RECURSIVE EvalLoop(_, _, _, _, _)
EvalLoop(registry, api, sched, i, acc) ==
    IF i > Len(registry) THEN acc
    ELSE EvalLoop(registry, api, sched, i + 1,
                  EvalStep(acc, registry[i],
                           Relevant(sched, registry[i].procedures),
                           is_missing(get_nested(api, registry[i].field_path))))

\* the locals evaluate_integrity starts from, with its first two audit lines
EvalStart(ids) ==
    [fields_present |-> 0,
     critical_missing |-> <<>>,
     important_missing |-> <<>>,
     nice_missing |-> <<>>,
     audit |-> << << "BEGIN integrity evaluation", ids.patient_id, ids.carrier >>,
                  << "Scheduled procedures" >> >>]

\* the three audit lines written after the loop
SummaryLines(acc, g, block) ==
    << << "Completeness", g >>,
       << "Missing", ToString(Len(acc.critical_missing)),
          ToString(Len(acc.important_missing)), ToString(Len(acc.nice_missing)) >>,
       << "Block appointment", IF block THEN "True" ELSE "False" >> >>

\* the IntegrityReport and the next unused job id
IntegrityReport(ids, acc, completeness, g, block, built) ==
    [report |-> [patient_id |-> ids.patient_id,
                 carrier |-> ids.carrier,
                 member_id |-> ids.member_id,
                 completeness_score |-> completeness,
                 completeness_grade |-> g,
                 critical_missing |-> acc.critical_missing,
                 important_missing |-> acc.important_missing,
                 nice_to_have_missing |-> acc.nice_missing,
                 retrieval_jobs |-> built.jobs,
                 block_appointment |-> block,
                 audit_trail |-> built.audit],
     uuid |-> built.uuid]

\* evaluate_integrity after its loop, the grade and the block decision known
ReportAfter(ids, uuid, acc, completeness, g, block) ==
    IntegrityReport(ids, acc, completeness, g, block,
        build_retrieval_jobs(
            acc.critical_missing \o acc.important_missing \o acc.nice_missing,
            ids, acc.audit \o SummaryLines(acc, g, block), uuid))

\* evaluate_integrity after its loop, the completeness known
Graded(ids, uuid, acc, completeness) ==
    ReportAfter(ids, uuid, acc, completeness, grade(completeness),
                BlockDecision(acc.critical_missing))

\* Evaluated scoring the missing fields instead of the present ones
Evaluated_missing_share(ids, uuid, acc, total_fields) ==
    Graded(ids, uuid, acc, Score(total_fields - acc.fields_present, total_fields))

\* evaluate_integrity after its loop
Evaluated(ids, uuid, acc, total_fields) ==
    Graded(ids, uuid, acc, Score(acc.fields_present, total_fields))

\* EvaluateOver starting its loop one entry late
EvaluateOver_skip_first(registry, api, sched, ids, uuid) ==
    Evaluated(ids, uuid, EvalLoop(registry, api, sched, 2, EvalStart(ids)), Len(registry))

\* evaluate_integrity over a registry
EvaluateOver(registry, api, sched, ids, uuid) ==
    Evaluated(ids, uuid, EvalLoop(registry, api, sched, 1, EvalStart(ids)), Len(registry))

evaluate_integrity(api, sched, ids, uuid) ==
    EvaluateOver(FIELD_REGISTRY, api, sched, ids, uuid)

-----------------------------------------------------------------------------
(* Section 9 - data merger *)

\* next((r for r in registry if r["field_path"] == path), None), as an index
\* into the registry; 0 stands for None
RegistryIndex(registry, path) ==
    IF \E i \in 1..Len(registry) : registry[i].field_path = path
    THEN CHOOSE i \in 1..Len(registry) :
            /\ registry[i].field_path = path
            /\ \A j \in 1..(i - 1) : registry[j].field_path # path
    ELSE 0

\* the MergeSource of a job's method
SourceOfMethod(method) ==
    IF method = "RPA_SCRAPE" THEN "rpa_scrape"
    ELSE IF method = "PDF_ANALYSIS" THEN "pdf_analysis"
    ELSE "manual_entry"

\* SecondarySource without the scan: every recovered value is tagged rpa_scrape
SecondarySource_unscanned(jobs, path, i) == "rpa_scrape"

\* the scan of report.retrieval_jobs for the first job whose result holds path
RECURSIVE SecondarySource(_, _, _)
SecondarySource(jobs, path, i) ==
    IF i > Len(jobs) THEN "rpa_scrape"
    ELSE IF path \in DOMAIN jobs[i].result THEN SourceOfMethod(jobs[i].method)
    ELSE SecondarySource(jobs, path, i + 1)

\* the warning of the still-missing branch, r the registry index of the path
WarningsAt(registry, sched, r) ==
    IF r # 0
       /\ Relevant(sched, registry[r].procedures)
       /\ registry[r].criticality \in {"CRITICAL", "IMPORTANT"}
    THEN << registry[r].description >>
    ELSE <<>>

MissingWarnings(registry, sched, path) ==
    WarningsAt(registry, sched, RegistryIndex(registry, path))

\* what one iteration of the loop over all_paths adds
Merged(value, source, warnings, audit) ==
    [value |-> value, source |-> source, warnings |-> warnings, audit |-> audit]

\* the secondary branch
FromSecondary(path, sec_val, source) ==
    Merged(sec_val, source, <<>>, << "merged", path, source >>)

\* MergeBranch with the first two branches exchanged: the recovered value wins
\* over the document's
MergeBranch_secondary_first(registry, rep, sched, path, api_val, sec_val) ==
    IF ~is_missing(sec_val)
    THEN FromSecondary(path, sec_val, SecondarySource(rep.retrieval_jobs, path, 1))
    ELSE IF ~is_missing(api_val)
    THEN Merged(api_val, "api", <<>>, << "merged", path, "api" >>)
    ELSE Merged(NoneV, "missing", MissingWarnings(registry, sched, path),
                << "still MISSING", path >>)

\* the three branches, api_val and sec_val looked up
MergeBranch(registry, rep, sched, path, api_val, sec_val) ==
    IF ~is_missing(api_val)
    THEN Merged(api_val, "api", <<>>, << "merged", path, "api" >>)
    ELSE IF ~is_missing(sec_val)
    THEN FromSecondary(path, sec_val, SecondarySource(rep.retrieval_jobs, path, 1))
    ELSE Merged(NoneV, "missing", MissingWarnings(registry, sched, path),
                << "still MISSING", path >>)

\* one iteration of the loop over all_paths
MergeField(registry, api, sec, rep, sched, path) ==
    MergeBranch(registry, rep, sched, path, get_nested(api, path), DictGet(sec, path))

\* MergeStart with a warning list that outlives the call (the list of the
\* breakdown returned last)
MergeStart_shared_warnings ==
    [fields |-> EmptyMap, sources |-> EmptyMap, warnings |-> breakdown.warnings,
     audit |-> << << "BEGIN data merge" >> >>]

\* the locals merge_into_smart_breakdown starts from
MergeStart ==
    [fields |-> EmptyMap, sources |-> EmptyMap, warnings |-> <<>>,
     audit |-> << << "BEGIN data merge" >> >>]

\* the locals after an iteration that produced m for path
Accumulate(acc, path, m) ==
    [fields |-> DictUpdate(acc.fields, path :> m.value),
     sources |-> DictUpdate(acc.sources, path :> m.source),
     warnings |-> acc.warnings \o m.warnings,
     audit |-> Append(acc.audit, m.audit)]

\* the loop over all_paths, from position i on
RECURSIVE MergeLoop(_, _, _, _, _, _, _, _)
MergeLoop(registry, api, sec, rep, sched, all_paths, i, acc) ==
    IF i > Len(all_paths) THEN acc
    ELSE MergeLoop(registry, api, sec, rep, sched, all_paths, i + 1,
                   Accumulate(acc, all_paths[i],
                              MergeField(registry, api, sec, rep, sched, all_paths[i])))

\* Infer writing the inferred value but leaving the provenance as it was
Infer_untagged(acc, annual_max, annual_used) ==
    IF "annual_maximum_remaining" \in DOMAIN acc.sources
       /\ acc.sources["annual_maximum_remaining"] = "missing"
       /\ annual_max.t # "none" /\ annual_used.t # "none"
    THEN IF IsNumber(annual_max) /\ IsNumber(annual_used)
         THEN [raised |-> FALSE,
               fields |-> DictUpdate(acc.fields,
                              "annual_maximum_remaining" :> IntV(annual_max.n - annual_used.n)),
               sources |-> acc.sources,
               warnings |-> acc.warnings,
               audit |-> Append(acc.audit, << "inferred", "annual_maximum_remaining" >>)]
         ELSE [acc EXCEPT !.raised = TRUE]
    ELSE acc

\* the inference rule, its two operands looked up: the locals it leaves, and
\* whether the subtraction raised TypeError
Infer(acc, annual_max, annual_used) ==
    IF "annual_maximum_remaining" \in DOMAIN acc.sources
       /\ acc.sources["annual_maximum_remaining"] = "missing"
       /\ annual_max.t # "none" /\ annual_used.t # "none"
    THEN IF IsNumber(annual_max) /\ IsNumber(annual_used)
         THEN [raised |-> FALSE,
               fields |-> DictUpdate(acc.fields,
                              "annual_maximum_remaining" :> IntV(annual_max.n - annual_used.n)),
               sources |-> DictUpdate(acc.sources, "annual_maximum_remaining" :> "inferred"),
               warnings |-> acc.warnings,
               audit |-> Append(acc.audit, << "inferred", "annual_maximum_remaining" >>)]
         ELSE [acc EXCEPT !.raised = TRUE]
    ELSE acc

\* x = _get_nested(api_response, key) or secondary_data.get(key)
ApiOrSecondary(api, sec, key) == PyOr(get_nested(api, key), DictGet(sec, key))

Inference(api, sec, acc) ==
    Infer([raised |-> FALSE, fields |-> acc.fields, sources |-> acc.sources,
           warnings |-> acc.warnings, audit |-> acc.audit],
          ApiOrSecondary(api, sec, "annual_maximum"),
          ApiOrSecondary(api, sec, "annual_used"))

\* _build_human_note raises TypeError where it concatenates or joins a value
\* that is no string
freq_paths == << "frequency_limits.D1110", "frequency_limits.D0274", "frequency_limits.D2740",
                 "frequency_limits.D4341", "frequency_limits.D4910", "frequency_limits.D1351" >>

\* nxt = v.get("next_eligible_date") or v.get("last_service_date") or ""
NextDate(v) ==
    PyOr(PyOr(DictGet(v.kv, "next_eligible_date"), DictGet(v.kv, "last_service_date")),
         StrV(<<>>))

\* (' · next: ' + nxt) if nxt else ''
ConcatRaises(nxt) == Truthy(nxt) /\ nxt.t # "str"

\* ", ".join(teeth)
JoinRaises(teeth) ==
    \/ teeth.t \in {"none", "int", "bool"}
    \/ teeth.t = "list" /\ \E k \in 1..Len(teeth.items) : teeth.items[k].t # "str"

ClauseRaises(mtc) ==
    /\ mtc.t = "dict"
    /\ Truthy(DictGet(mtc.kv, "applies"))
    /\ JoinRaises(DictGetOr(mtc.kv, "affected_teeth", ListV(<<>>)))

FrequencyRaises(v) == v.t = "dict" /\ ConcatRaises(NextDate(v))

HumanNoteRaises(fields) ==
    \/ \E i \in 1..Len(freq_paths) : FrequencyRaises(DictGet(fields, freq_paths[i]))
    \/ ClauseRaises(DictGet(fields, "missing_tooth_clause"))

\* a count of the merged values that are truthy
PresentCount_truthy(fields) == Cardinality({p \in DOMAIN fields : Truthy(fields[p])})

\* sum(1 for v in merged_fields.values() if v is not None)
PresentCount(fields) == Cardinality({p \in DOMAIN fields : fields[p].t # "none"})

Completeness(present_count, total) ==
    IF total > 0 THEN Score(present_count, total) ELSE Score(0, 1)

SmartBreakdown(rep, merged, completeness, g) ==
    [patient_id |-> rep.patient_id,
     carrier |-> rep.carrier,
     member_id |-> rep.member_id,
     completeness_score |-> completeness,
     completeness_grade |-> g,
     fields |-> merged.fields,
     sources |-> merged.sources,
     warnings |-> merged.warnings,
     audit_trail |-> merged.audit \o << << "Merged completeness", g >>, << "END data merge" >> >>]

\* Returned handing on the report's score instead of the recomputed one
Returned_report_score(rep, merged, completeness) ==
    [raised |-> FALSE,
     breakdown |-> SmartBreakdown(rep, merged, rep.completeness_score,
                                  grade(rep.completeness_score))]

\* merge_into_smart_breakdown after the inference, the completeness known
Returned(rep, merged, completeness) ==
    [raised |-> FALSE,
     breakdown |-> SmartBreakdown(rep, merged, completeness, grade(completeness))]

\* merge_into_smart_breakdown after the inference: [raised, breakdown]
Completed_merge(rep, merged, total) ==
    IF merged.raised \/ HumanNoteRaises(merged.fields)
    THEN [raised |-> TRUE, breakdown |-> NoBreakdown]
    ELSE Returned(rep, merged, Completeness(PresentCount(merged.fields), total))

\* merge_into_smart_breakdown over a registry
MergeOver(registry, api, sec, rep, sched, all_paths) ==
    Completed_merge(rep,
        Inference(api, sec,
                  MergeLoop(registry, api, sec, rep, sched, all_paths, 1, MergeStart)),
        Len(all_paths))

merge_into_smart_breakdown(api, sec, rep, sched) ==
    MergeOver(FIELD_REGISTRY, api, sec, rep, sched, RegistryPaths)

-----------------------------------------------------------------------------
(* Section 11 - the orchestrator run_fallback_manager, step by step *)

NoReport ==
    [patient_id |-> "", carrier |-> "", member_id |-> "",
     completeness_score |-> Score(0, 1), completeness_grade |-> "",
     critical_missing |-> <<>>, important_missing |-> <<>>, nice_to_have_missing |-> <<>>,
     retrieval_jobs |-> <<>>, block_appointment |-> FALSE, audit_trail |-> <<>>]

\* no helper has been called directly
NoCall == [fn |-> "", args |-> <<>>, ret |-> <<>>]

\* what a caller compares between two calls: everything but timestamps and job ids
Output(b) ==
    [fields |-> b.fields, sources |-> b.sources,
     completeness_score |-> b.completeness_score,
     completeness_grade |-> b.completeness_grade,
     warnings |-> b.warnings]

\* the state before the first call, the inputs drawn from the given sets
InitFrom(documents, schedules, failures) ==
    /\ pc = "idle"
    /\ api_response \in documents
    /\ scheduled_procedures \in schedules
    /\ connFail \in failures
    /\ uuid_counter = 1
    /\ report = NoReport
    /\ sorted_jobs = <<>>
    /\ job_idx = 0
    /\ collected = EmptyMap
    /\ secondary_data = EmptyMap
    /\ breakdown = NoBreakdown
    /\ results = <<>>
    /\ calls = 0
    /\ call = NoCall

Init == InitFrom(Documents, ScheduleSamples, ConnectorFailures)

\* evaluate_integrity returns ev.report, having drawn the job ids below ev.uuid
Returns(ev) ==
    /\ report' = ev.report
    /\ uuid_counter' = ev.uuid

\* run_fallback_manager is entered: step 1, evaluate_integrity
Evaluate ==
    /\ pc \in {"idle", "done", "error"}
    /\ calls < MaxRuns
    /\ Returns(evaluate_integrity(api_response, scheduled_procedures, DemoIds, uuid_counter))
    /\ calls' = calls + 1
    /\ pc' = "evaluated"
    /\ UNCHANGED << api_response, scheduled_procedures, connFail, sorted_jobs, job_idx,
                    collected, secondary_data, breakdown, results, call >>

\* step 2 with jobs: dispatch_and_collect is entered and sorts the jobs
Dispatch ==
    /\ pc = "evaluated"
    /\ report.retrieval_jobs # <<>>
    /\ sorted_jobs' = SortedJobs(report.retrieval_jobs)
    /\ job_idx' = 1
    /\ collected' = EmptyMap
    /\ pc' = "dispatching"
    /\ UNCHANGED << api_response, scheduled_procedures, connFail, uuid_counter, report,
                    secondary_data, breakdown, results, calls, call >>

\* step 2 without jobs
NoJobs ==
    /\ pc = "evaluated"
    /\ report.retrieval_jobs = <<>>
    /\ secondary_data' = EmptyMap
    /\ pc' = "merging"
    /\ UNCHANGED << api_response, scheduled_procedures, connFail, uuid_counter, report,
                    sorted_jobs, job_idx, collected, breakdown, results, calls, call >>

\* collected replaced by the result of the job, not updated with it
Collect_overwrite(j, r) ==
    /\ report' = [report EXCEPT !.retrieval_jobs[j] = r.job]
    /\ collected' = r.result

\* the connector of job j has returned r.result and left the job as r.job:
\* collected.update(result)
Collect(j, r) ==
    /\ report' = [report EXCEPT !.retrieval_jobs[j] = r.job]
    /\ collected' = DictUpdate(collected, r.result)

\* one iteration of the dispatch loop whose connector returns
ExecuteJob ==
    /\ pc = "dispatching"
    /\ job_idx <= Len(sorted_jobs)
    /\ report.retrieval_jobs[sorted_jobs[job_idx]].method \notin connFail
    /\ Collect(sorted_jobs[job_idx], Connector(report.retrieval_jobs[sorted_jobs[job_idx]]))
    /\ job_idx' = job_idx + 1
    /\ UNCHANGED << pc, api_response, scheduled_procedures, connFail, uuid_counter,
                    sorted_jobs, secondary_data, breakdown, results, calls, call >>

\* one iteration of the dispatch loop whose connector raises: nothing catches
\* the exception, it leaves dispatch_and_collect and run_fallback_manager
ConnectorRaises ==
    /\ pc = "dispatching"
    /\ job_idx <= Len(sorted_jobs)
    /\ report.retrieval_jobs[sorted_jobs[job_idx]].method \in connFail
    /\ pc' = "error"
    /\ UNCHANGED << api_response, scheduled_procedures, connFail, uuid_counter, report,
                    sorted_jobs, job_idx, collected, secondary_data, breakdown, results, calls, call >>

\* the dispatch loop is over: dispatch_and_collect returns collected
DispatchReturn ==
    /\ pc = "dispatching"
    /\ job_idx > Len(sorted_jobs)
    /\ secondary_data' = collected
    /\ pc' = "merging"
    /\ UNCHANGED << api_response, scheduled_procedures, connFail, uuid_counter, report,
                    sorted_jobs, job_idx, collected, breakdown, results, calls, call >>

\* merge_into_smart_breakdown has raised or returned m.breakdown
Leaves(m) ==
    IF m.raised
    THEN /\ pc' = "error"
         /\ UNCHANGED << breakdown, results >>
    ELSE /\ pc' = "done"
         /\ breakdown' = m.breakdown
         /\ results' = Append(results, Output(m.breakdown))

\* a merge that writes the recovered values into the caller's document with
\* _set_nested
Merge_into_document ==
    /\ pc = "merging"
    /\ Leaves(merge_into_smart_breakdown(api_response, secondary_data, report,
                                         scheduled_procedures))
    /\ api_response' = IF api_response.t = "dict"
                        THEN SetAll(api_response, secondary_data, DOMAIN secondary_data)
                        ELSE api_response
    /\ UNCHANGED << scheduled_procedures, connFail, uuid_counter, report,
                    sorted_jobs, job_idx, collected, secondary_data, calls, call >>

\* step 3, merge_into_smart_breakdown; a TypeError inside it ends the call
Merge ==
    /\ pc = "merging"
    /\ Leaves(merge_into_smart_breakdown(api_response, secondary_data, report,
                                         scheduled_procedures))
    /\ UNCHANGED << api_response, scheduled_procedures, connFail, uuid_counter, report,
                    sorted_jobs, job_idx, collected, secondary_data, calls, call >>

Next ==
    \/ Evaluate
    \/ Dispatch
    \/ NoJobs
    \/ ExecuteJob
    \/ ConnectorRaises
    \/ DispatchReturn
    \/ Merge

Spec == Init /\ [][Next]_vars

-----------------------------------------------------------------------------
(* The merger called by a caller that recovered the secondary data itself:   *)
(* evaluate_integrity, then the caller's own retrieval, then                 *)
(* merge_into_smart_breakdown on whatever map the caller recovered.          *)

\* everything the two stubs know
StubData == rpa_simulated_data @@ pdf_simulated_data

\* keys of the recovered map the caller's connectors may have written
SecondaryKeys == { "annual_maximum", "annual_used", "annual_maximum_remaining",
                   "missing_tooth_clause", "frequency_limits.D4910" }

SecondaryValues == { NoneV, IntV(0), IntV(55000), StrV(<<"n","/","a">>) }

SecondaryMaps ==
    { EmptyMap, StubData } \cup
    { DictUpdate(base, k :> v) : base \in { EmptyMap, StubData },
                                 k \in SecondaryKeys, v \in SecondaryValues }

\* what staff may have entered by hand
StaffEntries ==
    { StubData,
      "missing_tooth_clause" :> StrV(<<"n","o","n","e"," ","f","o","u","n","d">>),
      ("annual_maximum" :> IntV(200000)) @@ ("annual_used" :> IntV(0)) }

\* the caller ran its own connectors: every job holds the recovered values of
\* the fields it requested
RanJobs(jobs, sec) ==
    [i \in 1..Len(jobs) |->
        [jobs[i] EXCEPT !.status = "COMPLETE", !.result = StubResult(jobs[i], sec)]]

\* the caller replaced the jobs by one MANUAL_CALL job holding what staff entered
ManualJob(sec) ==
    << [RetrievalJob(0, DemoIds, "MANUAL_CALL", <<>>, "CRITICAL")
            EXCEPT !.status = "COMPLETE", !.result = sec] >>

DirectEvaluate == pc = "idle" /\ Evaluate

ExternalRetrieval ==
    /\ pc = "evaluated"
    /\ \E sec \in SecondaryMaps :
          /\ secondary_data' = sec
          /\ report' = [report EXCEPT !.retrieval_jobs = RanJobs(@, sec)]
    /\ pc' = "merging"
    /\ UNCHANGED << api_response, scheduled_procedures, connFail, uuid_counter,
                    sorted_jobs, job_idx, collected, breakdown, results, calls, call >>

StaffEntry ==
    /\ pc = "evaluated"
    /\ \E sec \in StaffEntries :
          /\ secondary_data' = sec
          /\ report' = [report EXCEPT !.retrieval_jobs = ManualJob(sec)]
    /\ pc' = "merging"
    /\ UNCHANGED << api_response, scheduled_procedures, connFail, uuid_counter,
                    sorted_jobs, job_idx, collected, breakdown, results, calls, call >>

\* the caller hands over a recovered map without having run the report's jobs
UnattributedData ==
    /\ pc = "evaluated"
    /\ secondary_data' \in { StubData }
    /\ pc' = "merging"
    /\ UNCHANGED << api_response, scheduled_procedures, connFail, uuid_counter, report,
                    sorted_jobs, job_idx, collected, breakdown, results, calls, call >>

MergeDocValues == { IntV(0), StrV(<<" ","N","/","A"," ">>) }

MergeSchedules == { s \in ScheduleSamples : Len(s) = 3 \/ s = << <<>> >> }

MergeDocuments ==
    { EditWindow(base, start, len, value) :
        base \in BaseDocs, value \in MergeDocValues,
        start \in 1..Len(EditKeys), len \in 0..MaxEdits }

InitMerge == InitFrom(MergeDocuments, MergeSchedules, { {} })

NextMerge ==
    \/ DirectEvaluate
    \/ ExternalRetrieval
    \/ StaffEntry
    \/ UnattributedData
    \/ Merge

SpecMerge == InitMerge /\ [][NextMerge]_vars

-----------------------------------------------------------------------------
(* The helpers called directly: _grade, _is_missing, _procedure_is_relevant,  *)
(* _build_retrieval_jobs, and dispatch_and_collect on the jobs built.         *)

\* largest number of descriptors a score is taken over
MaxTotal == 20
\* largest number of missing fields handed to _build_retrieval_jobs
MaxMissing == 3

\* the record of a direct call
Called(fn, args, ret) == [fn |-> fn, args |-> args, ret |-> ret]

\* str arguments of _is_missing: the placeholders in other cases and with
\* surrounding whitespace, and strings that are no placeholder
StringSamples == MissingLiterals \cup {
    <<" ">>,
    <<"\t","\n">>,
    <<" "," "," ","\t">>,
    <<"N","o","t"," ","F","o","u","n","d">>,
    <<"N","O","T"," ","F","O","U","N","D">>,
    <<" "," ","n","o","t"," ","f","o","u","n","d"," ","\t">>,
    <<"N","/","A">>,
    <<" "," ","n","/","a"," ","\t">>,
    <<"U","n","k","n","o","w","n">>,
    <<"U","N","K","N","O","W","N">>,
    <<" "," ","u","n","k","n","o","w","n"," ","\t">>,
    <<"N","u","l","l">>,
    <<"N","U","L","L">>,
    <<" "," ","n","u","l","l"," ","\t">>,
    <<"N","o","n","e">>,
    <<"N","O","N","E">>,
    <<" "," ","n","o","n","e"," ","\t">>,
    <<"N","o","t"," ","A","p","p","l","i","c","a","b","l","e">>,
    <<"N","O","T"," ","A","P","P","L","I","C","A","B","L","E">>,
    <<" "," ","n","o","t"," ","a","p","p","l","i","c","a","b","l","e"," ","\t">>,
    <<"I","n","f","o","r","m","a","t","i","o","n"," ","N","o","t"," ","A","v","a","i","l","a","b","l","e">>,
    <<"I","N","F","O","R","M","A","T","I","O","N"," ","N","O","T"," ","A","V","A","I","L","A","B","L","E">>,
    <<" "," ","i","n","f","o","r","m","a","t","i","o","n"," ","n","o","t"," ","a","v","a","i","l","a","b","l","e"," ","\t">>,
    <<"N","o","t"," ","C","o","v","e","r","e","d">>,
    <<"N","O","T"," ","C","O","V","E","R","E","D">>,
    <<" "," ","n","o","t"," ","c","o","v","e","r","e","d"," ","\t">>,
    <<"S","e","e"," ","P","l","a","n"," ","D","o","c","u","m","e","n","t","s">>,
    <<"S","E","E"," ","P","L","A","N"," ","D","O","C","U","M","E","N","T","S">>,
    <<" "," ","s","e","e"," ","p","l","a","n"," ","d","o","c","u","m","e","n","t","s"," ","\t">>,
    <<"P","P","O">>,
    <<"0">>,
    <<"f","a","l","s","e">>,
    <<"n","/","a",".">>,
    <<"n","o","t">>,
    <<"n","o","t"," "," ","f","o","u","n","d">>,
    <<"c","o","v","e","r","e","d">>,
    <<"n","i","l">>,
    <<"N"," ","/"," ","A">>,
    <<"n","o","n","e"," ","f","o","u","n","d">>
}

\* arguments of _is_missing
ValueSamples ==
    { NoneV, IntV(0), IntV(1), IntV(200000), BoolV(FALSE), BoolV(TRUE),
      DictV(EmptyMap), DictV("months" :> IntV(0)), DictV("notes" :> NoneV),
      ListV(<<>>), ListV(<< NoneV >>), ListV(<< StrV(<<>>) >>) }
    \cup { StrV(s) : s \in StringSamples }

\* scheduled_procedures arguments of _procedure_is_relevant
RelevanceSchedules ==
    ScheduleSamples \cup {
        << <<"D","2","7">> >>,
        << <<"c","R","O","W","N">> >>,
        << <<"X","-","r","a","y">>, <<"p","e","r","i","o"," ","m","a","i","n","t","e","n","a","n","c","e"," ","v","i","s","i","t">> >>,
        << <<"*">> >>,
        << <<"D","9","9","9","9">> >>
    }

\* field_procedures arguments of _procedure_is_relevant: the registry's
\* matcher lists, the empty list and lists with a wildcard among or inside
\* other matchers
MatcherSamples(registry) ==
    { registry[i].procedures : i \in 1..Len(registry) } \cup {
        <<>>,
        << <<"c","r","o","w","n">>, <<"*">> >>,
        << <<"*","D","2","7","4","0">> >>,
        << <<"S","R","P">> >>
    }

\* a registry entry as it would be with another preferred method
Preferring(reg, method) == [reg EXCEPT !.preferred_retrieval = method]

\* MissingField records _build_retrieval_jobs may be handed: entries of every
\* tier and of every preferred method, relevant today or not
MissingPool(registry) ==
    { MissingField(reg, relevant) :
        reg \in { registry[1], registry[6], registry[9], registry[14], registry[15],
                  Preferring(registry[7], "MANUAL_CALL") },
        relevant \in BOOLEAN }

\* the lists of at most MaxMissing records of the pool, no path twice
MissingListsOf(pool) ==
    { list \in UNION { [1..n -> pool] : n \in 0..MaxMissing } :
        \A i \in 1..Len(list) : \A j \in 1..Len(list) :
            i # j => list[i].field_path # list[j].field_path }

MissingLists == MissingListsOf(MissingPool(FIELD_REGISTRY))

InitCalls == InitFrom({ EmptyDoc }, { <<>> }, { {} })

\* what a direct call of a helper leaves: its record, nothing else
Call(fn, args, ret) ==
    /\ pc = "idle"
    /\ call' = Called(fn, args, ret)
    /\ UNCHANGED << pc, api_response, scheduled_procedures, connFail, uuid_counter, report,
                    sorted_jobs, job_idx, collected, secondary_data, breakdown, results, calls >>

\* _grade is called on one score after another
CallGrade ==
    /\ call.fn \in { "", "_grade" }
    /\ \E total \in 1..MaxTotal : \E present \in 0..total :
          Call("_grade", << Score(present, total) >>, grade(Score(present, total)))

CallIsMissing ==
    /\ call = NoCall
    /\ \E value \in ValueSamples :
          Call("_is_missing", << value >>, is_missing(value))

CallProcedureIsRelevant ==
    /\ call = NoCall
    /\ \E scheduled \in RelevanceSchedules : \E procs \in MatcherSamples(FIELD_REGISTRY) :
          Call("_procedure_is_relevant", << scheduled, procs >>,
               procedure_is_relevant(scheduled, procs))

CallBuildRetrievalJobs ==
    /\ call = NoCall
    /\ \E missing_fields \in MissingLists :
          Call("_build_retrieval_jobs", << missing_fields >>,
               build_retrieval_jobs(missing_fields, DemoIds, <<>>, uuid_counter).jobs)

\* the jobs _build_retrieval_jobs returned are handed to dispatch_and_collect
GivenJobs ==
    /\ pc = "idle"
    /\ call.fn = "_build_retrieval_jobs"
    /\ call.ret # <<>>
    /\ report' = [report EXCEPT !.retrieval_jobs = call.ret]
    /\ pc' = "evaluated"
    /\ UNCHANGED << api_response, scheduled_procedures, connFail, uuid_counter,
                    sorted_jobs, job_idx, collected, secondary_data, breakdown, results,
                    calls, call >>

NextCalls ==
    \/ CallGrade
    \/ CallIsMissing
    \/ CallProcedureIsRelevant
    \/ CallBuildRetrievalJobs
    \/ GivenJobs
    \/ Dispatch
    \/ ExecuteJob
    \/ DispatchReturn

SpecCalls == InitCalls /\ [][NextCalls]_vars

-----------------------------------------------------------------------------
(* The pipeline with connectors that do not respond: the connector of a      *)
(* method in connFail never returns, so the loop of dispatch_and_collect,    *)
(* which calls it synchronously, takes no further step.  A loop whose       *)
(* connector returns goes on, and a finished loop returns.                   *)

InitHang == InitFrom(BaseDocs \cup MalformedRoots, ScheduleSamples, ConnectorFailures)

NextHang ==
    \/ Evaluate
    \/ Dispatch
    \/ NoJobs
    \/ ExecuteJob
    \/ DispatchReturn
    \/ Merge

SpecHang ==
    InitHang /\ [][NextHang]_vars /\ WF_vars(ExecuteJob) /\ WF_vars(DispatchReturn)

-----------------------------------------------------------------------------
(* dispatch_and_collect with connectors put in the stubs' place: a connector *)
(* takes a job and returns a map of field paths to values, and leaves the    *)
(* map in job.result.                                                        *)

\* maps a connector put in a stub's place may return: nothing, one field, or
\* two fields with other values
PluggedResults ==
    { EmptyMap,
      "annual_maximum_remaining" :> IntV(100000),
      ("annual_maximum_remaining" :> IntV(145000)) @@ ("missing_tooth_clause" :> NoneV) }

\* the fields the dispatched jobs are built for
PluggedPool(registry) ==
    { MissingField(reg, TRUE) :
        reg \in { registry[1], registry[6], registry[14],
                  Preferring(registry[7], "MANUAL_CALL") } }

\* _build_retrieval_jobs on the fields of the pool, then dispatch_and_collect
BuildForPlugged ==
    /\ call = NoCall
    /\ \E missing_fields \in MissingListsOf(PluggedPool(FIELD_REGISTRY)) :
          Call("_build_retrieval_jobs", << missing_fields >>,
               build_retrieval_jobs(missing_fields, DemoIds, <<>>, uuid_counter).jobs)

\* one iteration of the dispatch loop, the connector returning result
ExecuteJobPlugged ==
    /\ pc = "dispatching"
    /\ job_idx <= Len(sorted_jobs)
    /\ \E result \in PluggedResults :
          Collect(sorted_jobs[job_idx],
                  Completed(report.retrieval_jobs[sorted_jobs[job_idx]], result))
    /\ job_idx' = job_idx + 1
    /\ UNCHANGED << pc, api_response, scheduled_procedures, connFail, uuid_counter,
                    sorted_jobs, secondary_data, breakdown, results, calls, call >>

NextPlugged ==
    \/ BuildForPlugged
    \/ GivenJobs
    \/ Dispatch
    \/ ExecuteJob
    \/ ExecuteJobPlugged
    \/ DispatchReturn

SpecPlugged == InitCalls /\ [][NextPlugged]_vars

-----------------------------------------------------------------------------
(* The pipeline with the jobs run in any order: in place of the sorted      *)
(* order of dispatch_and_collect, the order in which the jobs are executed  *)
(* is drawn from all orders of the jobs.                                    *)

\* the orders in which n jobs can be executed
ExecutionOrders(n) ==
    { order \in [1..n -> 1..n] : \A a \in 1..n : \A b \in 1..n : a # b => order[a] # order[b] }

\* dispatch_and_collect is entered, the jobs to be run in some order
DispatchAnyOrder ==
    /\ pc = "evaluated"
    /\ report.retrieval_jobs # <<>>
    /\ sorted_jobs' \in ExecutionOrders(Len(report.retrieval_jobs))
    /\ job_idx' = 1
    /\ collected' = EmptyMap
    /\ pc' = "dispatching"
    /\ UNCHANGED << api_response, scheduled_procedures, connFail, uuid_counter, report,
                    secondary_data, breakdown, results, calls, call >>

InitAnyOrder == InitFrom(Documents, ScheduleSamples, { {} })

NextAnyOrder ==
    \/ Evaluate
    \/ DispatchAnyOrder
    \/ NoJobs
    \/ ExecuteJob
    \/ DispatchReturn
    \/ Merge

SpecAnyOrder == InitAnyOrder /\ [][NextAnyOrder]_vars

-----------------------------------------------------------------------------
(* Properties *)

RegistryPathSet == { RegistryPaths[i] : i \in 1..Len(RegistryPaths) }

\* the document's value and the recovered value of a path in the current state
DocValue(path) == get_nested(api_response, path)

Recovered(path) == DictGet(secondary_data, path)

\* the schedule of demo scenario 1, its second entry without the quadrants
CrownPerioBitewing ==
    << <<"C","r","o","w","n"," ","P","r","e","p"," ","#","1","4"," ","D","2","7","4","0">>,
       <<"P","e","r","i","o"," ","S","R","P"," ","D","4","3","4","1">>,
       <<"4"," ","B","i","t","e","w","i","n","g"," ","B","W","X"," ","D","0","2","7","4">> >>

\* C1 - primary precedence: once merge_into_smart_breakdown has returned, every
\* registry path whose document value is non-missing carries the document's
\* value with provenance api, whatever the recovered map holds for it.
C1_PrimaryPrecedence ==
    pc = "done" =>
        \A p \in RegistryPathSet :
            ~is_missing(DocValue(p)) =>
                /\ breakdown.fields[p] = DocValue(p)
                /\ breakdown.sources[p] = "api"

\* a merge has returned for a path present in the document and, with another
\* non-missing value, in the recovered map
C1_Witness ==
    /\ pc = "done"
    /\ \E p \in RegistryPathSet :
          /\ ~is_missing(DocValue(p))
          /\ ~is_missing(Recovered(p))
          /\ Recovered(p) # DocValue(p)

\* the operand the inference rule is stated over: the document's number, else
\* the recovered map's
KnownNumber(key) ==
    IF IsNumber(DocValue(key)) THEN DocValue(key) ELSE Recovered(key)

\* C2 - inference: once the merge has returned, if annual_maximum_remaining is
\* missing from the document and from the recovered map, and annual_maximum and
\* annual_used are both known numbers (zero included), the merged
\* annual_maximum_remaining is their difference with provenance inferred.
C2_InferenceWithZero ==
    ( /\ pc = "done"
      /\ is_missing(DocValue("annual_maximum_remaining"))
      /\ is_missing(Recovered("annual_maximum_remaining"))
      /\ KnownNumber("annual_maximum").t = "int"
      /\ KnownNumber("annual_used").t = "int" )
    => /\ breakdown.fields["annual_maximum_remaining"]
            = IntV(KnownNumber("annual_maximum").n - KnownNumber("annual_used").n)
       /\ breakdown.sources["annual_maximum_remaining"] = "inferred"

AllPresent ==
    \A p \in RegistryPathSet : ~is_missing(DocValue(p))

\* C3 - a complete document: when every registry path is non-missing in the
\* document, evaluate_integrity reports score 1, grade A, no missing field in
\* any tier, no retrieval job and no block, whatever the schedule.
C3_CompleteDocument ==
    (calls > 0 /\ AllPresent) =>
        /\ report.completeness_score.num = report.completeness_score.den
        /\ report.completeness_grade = "A"
        /\ report.critical_missing = <<>>
        /\ report.important_missing = <<>>
        /\ report.nice_to_have_missing = <<>>
        /\ report.retrieval_jobs = <<>>
        /\ report.block_appointment = FALSE

\* a complete document has been evaluated against a non-empty schedule
C3_Witness ==
    /\ calls > 0
    /\ AllPresent
    /\ scheduled_procedures = CrownPerioBitewing

\* a CRITICAL registry entry missing in the document and relevant to the schedule
CriticalMissingRelevant(registry) ==
    \E i \in 1..Len(registry) :
        /\ registry[i].criticality = "CRITICAL"
        /\ is_missing(DocValue(registry[i].field_path))
        /\ Relevant(scheduled_procedures, registry[i].procedures)

ConnectorRaised(i) ==
    /\ report.retrieval_jobs[sorted_jobs[i]].method \in connFail
    /\ \/ pc = "dispatching" /\ i < job_idx
       \/ pc = "error" /\ i <= job_idx
       \/ pc \in {"merging", "done"}

\* C5 - isolation: a job whose connector raised is marked FAILED and holds no
\* result, and the call goes on instead of ending with the error.
C5_Isolation ==
    \A i \in 1..Len(sorted_jobs) :
        ConnectorRaised(i) =>
            /\ report.retrieval_jobs[sorted_jobs[i]].status = "FAILED"
            /\ report.retrieval_jobs[sorted_jobs[i]].result = EmptyMap
            /\ pc # "error"

\* C6 - determinism: the calls of run_fallback_manager on the same document,
\* schedule and connector behaviour return the same fields, provenance, score,
\* grade and warnings.
C6_Determinism ==
    \A i \in DOMAIN results : \A j \in DOMAIN results : results[i] = results[j]

\* two calls have returned, each after dispatching jobs and with a warning
C6_Witness ==
    /\ Len(results) >= 2
    /\ report.retrieval_jobs # <<>>
    /\ results[1].warnings # <<>>
    /\ \E p \in DOMAIN results[1].sources :
          results[1].sources[p] \in {"rpa_scrape", "pdf_analysis"}

\* the missing-field records of a report, all tiers
AllMissing(rep) ==
    rep.critical_missing \o rep.important_missing \o rep.nice_to_have_missing

\* a missing CRITICAL record of the report for path, relevant today
CriticalRelevantRecord(rep, path) ==
    \E i \in 1..Len(rep.critical_missing) :
        /\ rep.critical_missing[i].field_path = path
        /\ rep.critical_missing[i].relevant_to_today

\* C7 - demo scenario: with exactly individual_deductible, deductible_met and
\* frequency_limits.D1110 present and the crown / perio / bitewing schedule,
\* evaluate_integrity reports 3 of 16 present, 13 missing, grade F and a block,
\* frequency_limits.D2740 and frequency_limits.D4341 being CRITICAL, missing
\* and relevant.
C7_DemoScenario ==
    ( /\ calls > 0
      /\ scheduled_procedures = CrownPerioBitewing
      /\ { p \in RegistryPathSet : ~is_missing(DocValue(p)) }
            = { "individual_deductible", "deductible_met", "frequency_limits.D1110" } )
    => /\ Len(FIELD_REGISTRY) = 16
       /\ report.completeness_score = Score(3, 16)
       /\ Len(AllMissing(report)) = 13
       /\ report.completeness_grade = "F"
       /\ report.block_appointment
       /\ CriticalRelevantRecord(report, "frequency_limits.D2740")
       /\ CriticalRelevantRecord(report, "frequency_limits.D4341")

\* the demo document itself has been evaluated against that schedule
C7_Witness ==
    /\ calls > 0
    /\ scheduled_procedures = CrownPerioBitewing
    /\ api_response = PARTIAL_API_RESPONSE
    /\ { p \in RegistryPathSet : ~is_missing(DocValue(p)) }
          = { "individual_deductible", "deductible_met", "frequency_limits.D1110" }

\* C8 - shape of the breakdown: once the merge has returned, its field map and
\* its provenance map are keyed by exactly the registry paths, every tag is a
\* MergeSource, and a value is null exactly where the tag is missing.
C8_BreakdownShape ==
    pc = "done" =>
        /\ DOMAIN breakdown.fields = RegistryPathSet
        /\ DOMAIN breakdown.sources = RegistryPathSet
        /\ \A p \in RegistryPathSet :
              /\ breakdown.sources[p] \in MergeSource
              /\ (breakdown.fields[p] = NoneV) <=> (breakdown.sources[p] = "missing")

\* a returned breakdown holding a document value, a recovered value, an
\* inferred value and a missing one
C8_Witness ==
    /\ pc = "done"
    /\ \E p \in RegistryPathSet : breakdown.sources[p] = "api"
    /\ \E p \in RegistryPathSet : breakdown.sources[p] = "pdf_analysis"
    /\ \E p \in RegistryPathSet : breakdown.sources[p] = "inferred"
    /\ \E p \in RegistryPathSet : breakdown.sources[p] = "missing"

\* the secondary tag of a retrieval method
TagOf(method) ==
    CASE method = "RPA_SCRAPE" -> "rpa_scrape"
      [] method = "PDF_ANALYSIS" -> "pdf_analysis"
      [] method = "MANUAL_CALL" -> "manual_entry"

Warned(reg) ==
    \E k \in 1..Len(breakdown.warnings) : breakdown.warnings[k] = reg.description

\* C10 - warnings: once the merge has returned, the warning list names a
\* registry entry exactly when its final provenance is missing, its criticality
\* is CRITICAL or IMPORTANT and it is relevant to the schedule.
C10_WarningsExact ==
    pc = "done" =>
        \A i \in 1..Len(FIELD_REGISTRY) :
            Warned(FIELD_REGISTRY[i]) <=>
                /\ breakdown.sources[FIELD_REGISTRY[i].field_path] = "missing"
                /\ FIELD_REGISTRY[i].criticality \in {"CRITICAL", "IMPORTANT"}
                /\ Relevant(scheduled_procedures, FIELD_REGISTRY[i].procedures)

\* the number of records for path in a missing list
RecordsFor(list, path) ==
    Cardinality({ k \in 1..Len(list) : list[k].field_path = path })

\* the report's missing list of a tier
TierList(rep, tier) ==
    CASE tier = "CRITICAL" -> rep.critical_missing
      [] tier = "IMPORTANT" -> rep.important_missing
      [] tier = "NICE_TO_HAVE" -> rep.nice_to_have_missing

\* the registry entry is classified once: present and in no missing list, or
\* missing and once in the list of its own tier only
ClassifiedOnce(rep, reg) ==
    \A tier \in Criticality :
        RecordsFor(TierList(rep, tier), reg.field_path) =
            IF is_missing(DocValue(reg.field_path)) /\ tier = reg.criticality THEN 1 ELSE 0

\* C11 - completeness accounting: evaluate_integrity classifies every registry
\* entry exactly once, present or missing in the list of its own tier, so the
\* present count and the three list lengths add up to the number of entries,
\* and the score is the present count over the number of entries.
C11_Accounting ==
    calls > 0 =>
        /\ \A i \in 1..Len(FIELD_REGISTRY) : ClassifiedOnce(report, FIELD_REGISTRY[i])
        /\ report.completeness_score =
              Score(Cardinality({ p \in RegistryPathSet : ~is_missing(DocValue(p)) }),
                    Len(FIELD_REGISTRY))
        /\ report.completeness_score.num + Len(report.critical_missing)
              + Len(report.important_missing) + Len(report.nice_to_have_missing)
              = Len(FIELD_REGISTRY)

\* a report with present fields and missing fields of every tier
C11_Witness ==
    /\ calls > 0
    /\ report.completeness_score.num > 0
    /\ report.critical_missing # <<>>
    /\ report.important_missing # <<>>
    /\ report.nice_to_have_missing # <<>>
    /\ scheduled_procedures # <<>>

\* the grade of a score by the thresholds 0.95, 0.85, 0.70, 0.50, in hundredths
GradeByThresholds(score) ==
    CASE 100 * score.num >= 95 * score.den -> "A"
      [] 100 * score.num < 95 * score.den /\ 100 * score.num >= 85 * score.den -> "B"
      [] 100 * score.num < 85 * score.den /\ 100 * score.num >= 70 * score.den -> "C"
      [] 100 * score.num < 70 * score.den /\ 100 * score.num >= 50 * score.den -> "D"
      [] 100 * score.num < 50 * score.den -> "F"

\* C12 - post-merge completeness: the returned breakdown's score is the number
\* of registry paths with a non-null merged value (inferred ones included) over
\* the number of registry paths, graded by the evaluator's thresholds.
C12_MergedCompleteness ==
    pc = "done" =>
        /\ breakdown.completeness_score =
              Score(Cardinality({ p \in RegistryPathSet : breakdown.fields[p] # NoneV }),
                    Cardinality(RegistryPathSet))
        /\ breakdown.completeness_grade = GradeByThresholds(breakdown.completeness_score)

\* a returned breakdown with an inferred value and a score other than the
\* report's
C12_Witness ==
    /\ pc = "done"
    /\ breakdown.sources["annual_maximum_remaining"] = "inferred"
    /\ breakdown.completeness_score # report.completeness_score
    /\ \E p \in RegistryPathSet : breakdown.fields[p] = NoneV

GradeRank(g) ==
    CASE g = "F" -> 0 [] g = "D" -> 1 [] g = "C" -> 2 [] g = "B" -> 3 [] g = "A" -> 4

\* the grade of n resolved fields out of 16
GradeOfSixteen(n) ==
    CASE n = 16 -> "A"
      [] n \in 14..15 -> "B"
      [] n \in 12..13 -> "C"
      [] n \in 8..11 -> "D"
      [] n \in 0..7 -> "F"

\* the call c of _grade returned the grade the thresholds give
GradedByThresholds(c) ==
    /\ c.ret = GradeByThresholds(c.args[1])
    /\ c.args[1].den = 16 => c.ret = GradeOfSixteen(c.args[1].num)

\* the call d of _grade, on a score at least that of the call c, returned a
\* grade at least as good
GradedMonotone(c, d) ==
    d.args[1].num * c.args[1].den >= c.args[1].num * d.args[1].den
        => GradeRank(d.ret) >= GradeRank(c.ret)

C14_JobLifecycle ==
    \A i \in 1..Len(report.retrieval_jobs) :
        /\ report.retrieval_jobs[i].status \in {"PENDING", "IN_PROGRESS", "COMPLETE", "FAILED"}
        /\ pc \in {"merging", "done"} =>
              report.retrieval_jobs[i].status \in {"COMPLETE", "FAILED"}

\* C15 - malformed root: when the document handed to evaluate_integrity is no
\* mapping, the call fails with an error and returns no IntegrityReport.
C15_MalformedRootFails ==
    api_response.t # "dict" =>
        /\ pc \in {"idle", "error"}
        /\ report = NoReport

\* C16 - partial malformation never raises: for a document whose root is a
\* mapping, evaluate_integrity and merge_into_smart_breakdown return, whatever
\* the values stored in it; no call ends with an exception.
C16_NeverRaises ==
    api_response.t = "dict" => pc # "error"

\* C17 - timeouts: dispatch_and_collect returns even when a connector never
\* responds.
C17_DispatchReturns ==
    (pc = "dispatching") ~> (pc = "merging")

-----------------------------------------------------------------------------
(* _is_missing *)

\* the placeholder strings the specification lists
SentinelStrings == {
    <<>>,
    <<"n","o","t"," ","f","o","u","n","d">>,
    <<"n","/","a">>,
    <<"u","n","k","n","o","w","n">>,
    <<"n","u","l","l">>,
    <<"n","o","n","e">>,
    <<"n","o","t"," ","a","p","p","l","i","c","a","b","l","e">>,
    <<"i","n","f","o","r","m","a","t","i","o","n"," ","n","o","t"," ","a","v","a","i","l","a","b","l","e">>,
    <<"n","o","t"," ","c","o","v","e","r","e","d">>,
    <<"s","e","e"," ","p","l","a","n"," ","d","o","c","u","m","e","n","t","s">>
}

\* null, an empty mapping or list, or a placeholder string
SpecifiedMissing(v) ==
    \/ v.t = "none"
    \/ v.t = "dict" /\ DOMAIN v.kv = {}
    \/ v.t = "list" /\ v.items = <<>>
    \/ v.t = "str" /\ Lower(Strip(v.s)) \in SentinelStrings

\* C18: _is_missing returns True exactly for null, an empty mapping or list,
\* and a string that trimmed and lower-cased is one of the ten placeholders;
\* zero, False, every other string and every non-empty collection are not
\* missing.
C18_IsMissing ==
    call.fn = "_is_missing" =>
        LET v == call.args[1] IN
        /\ call.ret \in BOOLEAN
        /\ call.ret <=> SpecifiedMissing(v)
        /\ v \in { IntV(0), BoolV(FALSE) } => ~call.ret
        /\ v.t \in { "int", "bool" } => ~call.ret
        /\ v.t = "dict" /\ DOMAIN v.kv # {} => ~call.ret
        /\ v.t = "list" /\ Len(v.items) > 0 => ~call.ret
        /\ v = StrV(<<" "," ","n","/","a"," ","\t">>) => call.ret
        /\ v = StrV(<<"N","O","T"," ","F","O","U","N","D">>) => call.ret
        /\ v = StrV(<<"n","/","a",".">>) => ~call.ret
        /\ v = StrV(<<"0">>) => ~call.ret

\* _is_missing was called on the number zero and returned False
C18_Witness ==
    /\ call.fn = "_is_missing"
    /\ call.args = << IntV(0) >>
    /\ call.ret = FALSE

-----------------------------------------------------------------------------
(* _procedure_is_relevant *)

\* "*" is one of the matchers
HasWildcard(procs) == \E k \in 1..Len(procs) : procs[k] = <<"*">>

\* some scheduled description contains a matcher or is contained in one,
\* letter case aside
SomeContainment(sched, procs) ==
    \E j \in 1..Len(sched) : \E k \in 1..Len(procs) :
        \/ StrIn(Lower(procs[k]), Lower(sched[j]))
        \/ StrIn(Lower(sched[j]), Lower(procs[k]))

\* C19: _procedure_is_relevant returns True whenever "*" is among the
\* matchers, whatever the schedule; without "*" it returns True exactly when
\* a scheduled description contains a matcher or is contained in one,
\* compared case-insensitively; for the empty schedule it returns True only
\* for matchers with "*".
C19_Relevance ==
    call.fn = "_procedure_is_relevant" =>
        LET sched == call.args[1]
            procs == call.args[2]
        IN  /\ call.ret \in BOOLEAN
            /\ HasWildcard(procs) => call.ret
            /\ ~HasWildcard(procs) => (call.ret <=> SomeContainment(sched, procs))
            /\ sched = <<>> => (call.ret <=> HasWildcard(procs))

\* a scheduled description that is only a part of a matcher made a field
\* without wildcard relevant
C19_Witness ==
    /\ call.fn = "_procedure_is_relevant"
    /\ call.args[1] = << <<"D","2","7">> >>
    /\ ~HasWildcard(call.args[2])
    /\ \E k \in 1..Len(call.args[2]) : call.args[2][k] = <<"D","2","7","4","0">>
    /\ call.ret = TRUE

-----------------------------------------------------------------------------
(* _build_retrieval_jobs *)

\* positions of the missing fields that are to be retrieved
RetainedAt(missing) ==
    { i \in 1..Len(missing) :
        \/ missing[i].criticality \in { "CRITICAL", "IMPORTANT" }
        \/ missing[i].criticality = "NICE_TO_HAVE" /\ missing[i].relevant_to_today }

\* paths of the retained fields whose preferred method is the given one
RetainedPaths(missing, method) ==
    { missing[i].field_path :
        i \in { k \in RetainedAt(missing) : missing[k].preferred_retrieval = method } }

MethodRank(method) ==
    CASE method = "RPA_SCRAPE" -> 1
      [] method = "PDF_ANALYSIS" -> 2
      [] method = "MANUAL_CALL" -> 3
      [] OTHER -> 0

RequestedBy(job) == { job.fields_requested[i] : i \in 1..Len(job.fields_requested) }

\* C20: _build_retrieval_jobs keeps the CRITICAL and IMPORTANT fields and
\* the NICE_TO_HAVE fields relevant today; it returns exactly one job for
\* each method preferred by a retained field and no other job; a job
\* requests exactly the retained fields preferring its method, so the jobs'
\* field sets are non-empty, pairwise disjoint and cover the retained
\* fields; the jobs come in the order RPA_SCRAPE, PDF_ANALYSIS, MANUAL_CALL.
C20_JobBuilding ==
    call.fn = "_build_retrieval_jobs" =>
        LET missing == call.args[1]
            jobs == call.ret
        IN  /\ { jobs[j].method : j \in 1..Len(jobs) }
                  = { missing[i].preferred_retrieval : i \in RetainedAt(missing) }
            /\ \A j \in 1..Len(jobs) : \A k \in 1..Len(jobs) :
                  /\ j < k => MethodRank(jobs[j].method) < MethodRank(jobs[k].method)
                  /\ j # k => RequestedBy(jobs[j]) \cap RequestedBy(jobs[k]) = {}
            /\ \A j \in 1..Len(jobs) :
                  /\ MethodRank(jobs[j].method) > 0
                  /\ RequestedBy(jobs[j]) = RetainedPaths(missing, jobs[j].method)
                  /\ Len(jobs[j].fields_requested) = Cardinality(RequestedBy(jobs[j]))
                  /\ jobs[j].fields_requested # <<>>
            /\ UNION { RequestedBy(jobs[j]) : j \in 1..Len(jobs) }
                  = { missing[i].field_path : i \in RetainedAt(missing) }

\* jobs were built from a list with a NICE_TO_HAVE field not relevant today,
\* which no job requests, and a job for MANUAL_CALL came last of two
C20_Witness ==
    /\ call.fn = "_build_retrieval_jobs"
    /\ \E i \in 1..Len(call.args[1]) :
          /\ call.args[1][i].criticality = "NICE_TO_HAVE"
          /\ ~call.args[1][i].relevant_to_today
          /\ \A j \in 1..Len(call.ret) :
                call.args[1][i].field_path \notin RequestedBy(call.ret[j])
    /\ Len(call.ret) = 2
    /\ call.ret[2].method = "MANUAL_CALL"

-----------------------------------------------------------------------------
(* criticality of a job *)

\* rank of a tier: CRITICAL above IMPORTANT above NICE_TO_HAVE
TierRank(criticality) ==
    CASE criticality = "CRITICAL" -> 3
      [] criticality = "IMPORTANT" -> 2
      [] criticality = "NICE_TO_HAVE" -> 1
      [] OTHER -> 0

\* the tiers of the missing fields a job requests
TiersRequested(missing, job) ==
    { missing[i].criticality :
        i \in { k \in 1..Len(missing) : missing[k].field_path \in RequestedBy(job) } }

\* C21: the criticality of every job _build_retrieval_jobs returns is the
\* highest tier among the fields the job requests, whatever the batch holds
\* and in whatever order.
C21_TopCriticality ==
    call.fn = "_build_retrieval_jobs" =>
        \A j \in 1..Len(call.ret) :
            LET tiers == TiersRequested(call.args[1], call.ret[j])
            IN  /\ call.ret[j].criticality \in tiers
                /\ \A t \in tiers : TierRank(t) <= TierRank(call.ret[j].criticality)

\* a job was built for a batch whose first field is IMPORTANT and whose
\* second field is CRITICAL, and the job is CRITICAL
C21_Witness ==
    /\ call.fn = "_build_retrieval_jobs"
    /\ Len(call.args[1]) = 2
    /\ call.args[1][1].criticality = "IMPORTANT"
    /\ call.args[1][2].criticality = "CRITICAL"
    /\ Len(call.ret) = 1
    /\ Len(call.ret[1].fields_requested) = 2
    /\ call.ret[1].criticality = "CRITICAL"

-----------------------------------------------------------------------------
(* order of the dispatch *)

\* the connector of the job has been called
Invoked(job) == job.status # "PENDING"

\* sorted_jobs lists every job once, higher tiers first and jobs of one tier
\* as built; the jobs before the loop position, and no others, have been run
DispatchInOrder ==
    pc = "dispatching" =>
        LET jobs == report.retrieval_jobs IN
        /\ Len(sorted_jobs) = Len(jobs)
        /\ { sorted_jobs[a] : a \in 1..Len(sorted_jobs) } = 1..Len(jobs)
        /\ \A a \in 1..Len(sorted_jobs) : \A b \in 1..Len(sorted_jobs) :
              a < b =>
                /\ TierRank(jobs[sorted_jobs[a]].criticality)
                      >= TierRank(jobs[sorted_jobs[b]].criticality)
                /\ jobs[sorted_jobs[a]].criticality = jobs[sorted_jobs[b]].criticality
                      => sorted_jobs[a] < sorted_jobs[b]
        /\ \A a \in 1..Len(sorted_jobs) : Invoked(jobs[sorted_jobs[a]]) <=> a < job_idx

\* what the connector of the job's method leaves in the job
LeftByItsConnector(job) ==
    CASE job.method = "RPA_SCRAPE" ->
            /\ job.status = "COMPLETE"
            /\ "annual_maximum_remaining" \in RequestedBy(job)
                  => "annual_maximum_remaining" \in DOMAIN job.result
            /\ "missing_tooth_clause" \notin DOMAIN job.result
      [] job.method = "PDF_ANALYSIS" ->
            /\ job.status = "COMPLETE"
            /\ "missing_tooth_clause" \in RequestedBy(job)
                  => "missing_tooth_clause" \in DOMAIN job.result
            /\ "annual_maximum_remaining" \notin DOMAIN job.result
      [] job.method = "MANUAL_CALL" ->
            /\ job.status = "MANUAL_REQUIRED"
            /\ job.result = EmptyMap
      [] OTHER -> FALSE

\* a step of the loop runs the job at the loop position, that job only, by
\* the connector of its method, and moves on to the next position
RunsNextJobOnce ==
    pc = "dispatching" /\ report' # report =>
        /\ job_idx \in 1..Len(sorted_jobs)
        /\ job_idx' = job_idx + 1
        /\ sorted_jobs' = sorted_jobs
        /\ ~Invoked(report.retrieval_jobs[sorted_jobs[job_idx]])
        /\ LeftByItsConnector(report'.retrieval_jobs[sorted_jobs[job_idx]])
        /\ \A i \in 1..Len(report.retrieval_jobs) :
              i # sorted_jobs[job_idx] => report'.retrieval_jobs[i] = report.retrieval_jobs[i]

\* dispatch_and_collect returns when every job has been run
ReturnsAfterAll ==
    pc = "dispatching" /\ pc' = "merging" =>
        \A i \in 1..Len(report.retrieval_jobs) : Invoked(report.retrieval_jobs[i])

\* C22: dispatch_and_collect calls the connector of each job's method once
\* per job, skipping and repeating none; CRITICAL jobs are started before
\* IMPORTANT jobs and these before NICE_TO_HAVE jobs, and jobs of the same
\* criticality in the order they were built.
C22_DispatchOrder ==
    [][DispatchInOrder' /\ RunsNextJobOnce /\ ReturnsAfterAll]_vars

\* a dispatch that ran the second job built before the first, both finished
C22_Witness ==
    /\ pc = "dispatching"
    /\ sorted_jobs = << 2, 1 >>
    /\ job_idx = 3
    /\ report.retrieval_jobs[2].criticality = "CRITICAL"
    /\ report.retrieval_jobs[1].criticality = "NICE_TO_HAVE"

-----------------------------------------------------------------------------
(* the map dispatch_and_collect returns *)

\* positions in sorted_jobs, below the given one, of the jobs whose
\* connector returned the key
SuppliedAt(key, upto) ==
    { a \in 1..Len(sorted_jobs) :
        a < upto /\ key \in DOMAIN report.retrieval_jobs[sorted_jobs[a]].result }

\* the largest position of a set of positions
LastOf(positions) == CHOOSE a \in positions : \A b \in positions : b <= a

\* the map holds the keys the jobs run before the given position returned,
\* each with the value of the last of these jobs
UnionOfResults(map, upto) ==
    /\ DOMAIN map = { key \in UNION { DOMAIN report.retrieval_jobs[i].result :
                                        i \in 1..Len(report.retrieval_jobs) } :
                         SuppliedAt(key, upto) # {} }
    /\ \A key \in DOMAIN map :
          map[key] = report.retrieval_jobs[sorted_jobs[LastOf(SuppliedAt(key, upto))]].result[key]

\* C23: the map dispatch_and_collect returns is the union of the maps the
\* connectors of its jobs returned: a requested field no connector supplied
\* is not a key of it, and a key two jobs returned has the value of the job
\* run later.
C23_DispatchOutput ==
    /\ pc = "dispatching" => UnionOfResults(collected, job_idx)
    /\ pc = "merging" /\ sorted_jobs # <<>> =>
          UnionOfResults(secondary_data, Len(sorted_jobs) + 1)

\* dispatch_and_collect has returned a map in which a key returned by two
\* jobs with different values has the value of the job run later, and in
\* which a requested field is absent
C23_Witness ==
    /\ pc = "merging"
    /\ Len(sorted_jobs) >= 2
    /\ \E a \in 1..Len(sorted_jobs) : \E b \in 1..Len(sorted_jobs) :
          /\ a < b
          /\ "annual_maximum_remaining" \in DOMAIN report.retrieval_jobs[sorted_jobs[a]].result
          /\ "annual_maximum_remaining" \in DOMAIN report.retrieval_jobs[sorted_jobs[b]].result
          /\ report.retrieval_jobs[sorted_jobs[a]].result["annual_maximum_remaining"] = IntV(145000)
          /\ report.retrieval_jobs[sorted_jobs[b]].result["annual_maximum_remaining"] = IntV(100000)
          /\ \A c \in 1..Len(sorted_jobs) :
                c > b => "annual_maximum_remaining" \notin DOMAIN report.retrieval_jobs[sorted_jobs[c]].result
    /\ secondary_data["annual_maximum_remaining"] = IntV(100000)
    /\ \E i \in 1..Len(report.retrieval_jobs) :
          RequestedBy(report.retrieval_jobs[i]) \ DOMAIN secondary_data # {}

-----------------------------------------------------------------------------
(* order of execution *)

\* no two jobs hold a result for the same key
DisjointResults ==
    \A i \in 1..Len(report.retrieval_jobs) : \A j \in 1..Len(report.retrieval_jobs) :
        i # j => DOMAIN report.retrieval_jobs[i].result
                   \cap DOMAIN report.retrieval_jobs[j].result = {}

\* the recovered map is made of the jobs' results, each key from the job
\* that holds it
RecoveredFromJobs ==
    pc \in { "merging", "done" } /\ report.retrieval_jobs # <<>> =>
        /\ DOMAIN secondary_data
              = UNION { DOMAIN report.retrieval_jobs[i].result :
                          i \in 1..Len(report.retrieval_jobs) }
        /\ \A i \in 1..Len(report.retrieval_jobs) :
              \A key \in DOMAIN report.retrieval_jobs[i].result :
                  secondary_data[key] = report.retrieval_jobs[i].result[key]

\* the calls made on the same inputs, whatever the order of their jobs,
\* returned the same fields, provenance, score, grade and warnings
SameOutputs == \A a \in 1..Len(results) : results[a] = results[1]

\* running a job writes that job only
WritesOwnJob ==
    pc = "dispatching" /\ pc' = "dispatching" =>
        \A i \in 1..Len(report.retrieval_jobs) :
            i # sorted_jobs[job_idx] => report'.retrieval_jobs[i] = report.retrieval_jobs[i]

\* C24: whatever the order in which the jobs of evaluate_integrity are run,
\* the recovered map and the SmartBreakdown are the same: a job writes its
\* own status and result only, and the results of two jobs share no key.
C24_OrderIndependence ==
    [][DisjointResults' /\ RecoveredFromJobs' /\ SameOutputs' /\ WritesOwnJob]_vars

\* a second call whose jobs ran in the order opposite to the order
\* dispatch_and_collect sorts them in, both jobs recovering fields, returned
\* what the first call returned
C24_Witness ==
    /\ pc = "done"
    /\ Len(results) = 2
    /\ results[2] = results[1]
    /\ Len(sorted_jobs) = 2
    /\ sorted_jobs[1] = 2
    /\ report.retrieval_jobs[1].criticality = report.retrieval_jobs[2].criticality
    /\ report.retrieval_jobs[1].result # EmptyMap
    /\ report.retrieval_jobs[2].result # EmptyMap

-----------------------------------------------------------------------------
(* what the pipeline leaves alone *)

\* no two entries of the registry have the same field path
PathsDistinct(registry) ==
    \A i \in 1..Len(registry) : \A j \in 1..Len(registry) :
        i # j => registry[i].field_path # registry[j].field_path

\* C25: no step of evaluate_integrity, _build_retrieval_jobs,
\* dispatch_and_collect or merge_into_smart_breakdown changes the caller's
\* document or schedule; the registry, which every call reads and no
\* statement assigns, has pairwise distinct field paths.
C25_Frame ==
    [][/\ api_response' = api_response
       /\ scheduled_procedures' = scheduled_procedures
       /\ PathsDistinct(FIELD_REGISTRY)]_vars

\* two calls have gone through evaluation, dispatch and merge on a document
\* with fields of its own, values recovered for other fields
C25_Witness ==
    /\ pc = "done"
    /\ Len(results) = 2
    /\ api_response = PARTIAL_API_RESPONSE
    /\ scheduled_procedures # <<>>
    /\ secondary_data # EmptyMap
    /\ \E path \in DOMAIN breakdown.sources : breakdown.sources[path] = "rpa_scrape"

-----------------------------------------------------------------------------
(* the report after construction *)

\* a job without the two fields its connector writes
JobAsBuilt(job) == [job EXCEPT !.status = "PENDING", !.result = EmptyMap]

\* a report without the status and result of its jobs
ReportAsBuilt(rep) ==
    [rep EXCEPT !.retrieval_jobs =
        [i \in 1..Len(rep.retrieval_jobs) |-> JobAsBuilt(rep.retrieval_jobs[i])]]

\* evaluate_integrity is not what the step is
AfterConstruction == pc \in { "evaluated", "dispatching", "merging" }

\* C26: after evaluate_integrity has returned its report, no step changes
\* the report's score, grade, lists of missing fields, block decision or
\* audit trail, nor the id, method, criticality or fields_requested of a
\* job; status and result of a job change only in the step of
\* dispatch_and_collect that runs this job, and merge_into_smart_breakdown
\* changes nothing of the report.
C26_ReportImmutable ==
    [][AfterConstruction =>
          /\ ReportAsBuilt(report') = ReportAsBuilt(report)
          /\ \A i \in 1..Len(report.retrieval_jobs) :
                report'.retrieval_jobs[i] # report.retrieval_jobs[i]
                    => pc = "dispatching" /\ job_idx <= Len(sorted_jobs) /\ i = sorted_jobs[job_idx]
          /\ pc = "merging" => report' = report]_vars

\* a call is over whose report has a job that was run and a field this job
\* requested without getting it
C26_Witness ==
    /\ pc = "done"
    /\ report.audit_trail # <<>>
    /\ \E i \in 1..Len(report.retrieval_jobs) :
          /\ report.retrieval_jobs[i].status = "COMPLETE"
          /\ report.retrieval_jobs[i].result # EmptyMap
          /\ RequestedBy(report.retrieval_jobs[i]) \ DOMAIN report.retrieval_jobs[i].result # {}

-----------------------------------------------------------------------------
(* audit trail of the record *)

\* the lines of part occur in whole, from position i of whole on, in the
\* order they have in part
RECURSIVE OccursInOrder(_, _, _)
OccursInOrder(part, whole, i) ==
    IF part = <<>> THEN TRUE
    ELSE IF i > Len(whole) THEN FALSE
    ELSE IF whole[i] = Head(part) THEN OccursInOrder(Tail(part), whole, i + 1)
    ELSE OccursInOrder(part, whole, i + 1)

\* C27: the SmartBreakdown run_fallback_manager returns carries the audit
\* lines of the evaluation and of the job building, in their order, and the
\* lines of the merge.
C27_FullAuditTrail ==
    pc = "done" =>
        /\ OccursInOrder(report.audit_trail, breakdown.audit_trail, 1)
        /\ OccursInOrder(<< << "BEGIN data merge" >>, << "END data merge" >> >>,
                         breakdown.audit_trail, 1)

-----------------------------------------------------------------------------
(* completeness before and after the merge *)

\* the registry paths the evaluator counts present in the document
PresentInDocument == { p \in RegistryPathSet : ~SpecifiedMissing(DocValue(p)) }

\* C28: the completeness score of the SmartBreakdown run_fallback_manager
\* returns is not below the score of the IntegrityReport of the same call,
\* and its grade is not worse: every field the evaluator counted present
\* carries the document's value, which is not null, with provenance api.
C28_MonotoneCompleteness ==
    pc = "done" =>
        /\ breakdown.completeness_score.num * report.completeness_score.den
              >= report.completeness_score.num * breakdown.completeness_score.den
        /\ GradeRank(breakdown.completeness_grade) >= GradeRank(report.completeness_grade)
        /\ report.completeness_score.num * 16
              = Cardinality(PresentInDocument) * report.completeness_score.den
        /\ \A p \in PresentInDocument :
              /\ breakdown.sources[p] = "api"
              /\ breakdown.fields[p] = DocValue(p)
              /\ breakdown.fields[p].t # "none"

\* a call on a document with fields of its own, zero and False among them,
\* returned a record with a higher score and a better grade than its report
C28_Witness ==
    /\ pc = "done"
    /\ \E p \in PresentInDocument : DocValue(p) \in { IntV(0), BoolV(FALSE) }
    /\ report.completeness_score.num > 0
    /\ breakdown.completeness_score.num * report.completeness_score.den
          > report.completeness_score.num * breakdown.completeness_score.den
    /\ GradeRank(breakdown.completeness_grade) > GradeRank(report.completeness_grade)

-----------------------------------------------------------------------------
(* what is requested from the secondary sources *)

\* the paths the jobs of the report request
RequestedPaths ==
    UNION { RequestedBy(report.retrieval_jobs[i]) : i \in 1..Len(report.retrieval_jobs) }

\* the jobs of the report that request the path
JobsRequesting(path) ==
    { i \in 1..Len(report.retrieval_jobs) : path \in RequestedBy(report.retrieval_jobs[i]) }

\* the method the registry prefers for the path
PreferredMethod(registry, path) ==
    registry[CHOOSE i \in 1..Len(registry) : registry[i].field_path = path].preferred_retrieval

\* C29: in run_fallback_manager the keys of the recovered map are among the
\* paths the jobs request, and these among the registry paths missing in
\* the document; no field present in the document is requested or has a
\* secondary provenance, and a field with a secondary provenance was
\* requested by one job only, whose method is the method the registry
\* prefers for the field.
C29_NoConflict ==
    /\ pc \in { "merging", "done" } =>
          /\ DOMAIN secondary_data \subseteq RequestedPaths
          /\ RequestedPaths \subseteq RegistryPathSet \ PresentInDocument
    /\ pc = "done" =>
          \A p \in RegistryPathSet :
              breakdown.sources[p] \in { "rpa_scrape", "pdf_analysis", "manual_entry" } =>
                  /\ p \notin PresentInDocument
                  /\ Cardinality(JobsRequesting(p)) = 1
                  /\ \A i \in JobsRequesting(p) :
                        /\ report.retrieval_jobs[i].method = PreferredMethod(FIELD_REGISTRY, p)
                        /\ breakdown.sources[p] = TagOf(report.retrieval_jobs[i].method)
                        /\ p \in DOMAIN report.retrieval_jobs[i].result

\* a call is over on a document with fields of its own: two jobs were run,
\* fields were recovered by each, and a requested field was not recovered
C29_Witness ==
    /\ pc = "done"
    /\ PresentInDocument # {}
    /\ Len(report.retrieval_jobs) = 2
    /\ \E p \in RegistryPathSet : breakdown.sources[p] = "rpa_scrape"
    /\ \E p \in RegistryPathSet : breakdown.sources[p] = "pdf_analysis"
    /\ RequestedPaths \ DOMAIN secondary_data # {}

-----------------------------------------------------------------------------
(* what stays missing with the registry and the stubs as shipped *)

\* the fields neither stub is asked for and can supply
ResidualPaths ==
    { "frequency_limits.D4910", "frequency_limits.D1351", "fluoride_coverage",
      "ortho_lifetime_maximum" }

\* the paths left without a value by the merge
EndedMissing == { p \in RegistryPathSet : breakdown.sources[p] = "missing" }

\* C30: after run_fallback_manager on a document that is a mapping, no
\* CRITICAL field has provenance missing; only frequency_limits.D4910,
\* frequency_limits.D1351, fluoride_coverage and ortho_lifetime_maximum can
\* be missing, so that at least 12 of the 16 fields are resolved and the
\* grade is C or better; the only warning there can be is the one for
\* frequency_limits.D4910, a field requested from the RPA connector alone.
C30_ResidualGaps ==
    pc = "done" /\ api_response.t = "dict" =>
        /\ EndedMissing \subseteq ResidualPaths
        /\ \A i \in 1..Len(FIELD_REGISTRY) :
              FIELD_REGISTRY[i].criticality = "CRITICAL"
                  => breakdown.sources[FIELD_REGISTRY[i].field_path] # "missing"
        /\ breakdown.completeness_score.num * 16 >= 12 * breakdown.completeness_score.den
        /\ breakdown.completeness_grade \in { "A", "B", "C" }
        /\ Len(breakdown.warnings) <= 1
        /\ \A k \in 1..Len(breakdown.warnings) :
              /\ breakdown.warnings[k] = FIELD_REGISTRY[11].description
              /\ breakdown.sources["frequency_limits.D4910"] = "missing"
        /\ FIELD_REGISTRY[11].field_path = "frequency_limits.D4910"
        /\ \A i \in JobsRequesting("frequency_limits.D4910") :
              report.retrieval_jobs[i].method = "RPA_SCRAPE"

\* a call on a mapping ended with the four fields missing, 12 of 16
\* resolved, grade C and the warning for frequency_limits.D4910, requested
\* from the RPA connector
C30_Witness ==
    /\ pc = "done"
    /\ api_response.t = "dict"
    /\ EndedMissing = ResidualPaths
    /\ breakdown.completeness_score = Score(12, 16)
    /\ breakdown.completeness_grade = "C"
    /\ Len(breakdown.warnings) = 1
    /\ JobsRequesting("frequency_limits.D4910") # {}
====
